---- MODULE Spec2Model ----
(***************************************************************************)
(* pricectl: the reconciliation engine (StripeDeployer) with its state     *)
(* store and the remote provider it talks to.                              *)
(*                                                                         *)
(* The remote provider is an opaque capability: it stores what create and  *)
(* update calls hand to it, answers retrieve / search / list, and every    *)
(* call can fail.  JavaScript values are encoded as strings; the strings   *)
(* "undef" and "null" stand for undefined and null.                        *)
(***************************************************************************)
EXTENDS Integers, Sequences, FiniteSets, TLC

\* ---------------------------------------------------------------- bounds
MaxRuns == 2        \* deploy()/destroy() calls on one deployer
MaxPhys == 3        \* remote objects the provider creates
MaxFail == 1        \* transient remote failures in one run

\* ---------------------------------------------------------------- values
Undef == "undef"
Null == "null"

\* x ?? undefined
Coalesce(v) == IF v \in {Undef, Null} THEN Undef ELSE v

\* error codes of a failed remote call
ResourceMissing == "resource_missing"
ApiError == "api_error"

\* isResourceNotFoundError(error)
\* mutant of isResourceNotFoundError: every error counts as not found
isResourceNotFoundError_Any(code) == TRUE

isResourceNotFoundError(code) == code = ResourceMissing

TProduct == "Stripe::Product"
TPrice == "Stripe::Price"
TCoupon == "Stripe::Coupon"
TFeature == "Stripe::EntitlementFeature"
TMeter == "Stripe::BillingMeter"
TUnknown == "Stripe::Unknown"

\* ------------------------------------------------------------- metadata
\* metadata maps: internal identity tags, the legacy tag and one user key
MetaKeys == {"fillet_id", "plan", "pricectl_id", "pricectl_path", "pricectl_properties_hash"}
NoMeta == [k \in MetaKeys |-> Undef]
UserMeta(v) == [NoMeta EXCEPT !["plan"] = v]

\* { ...a, ...b }: keys of b that are set override a
Spread(a, b) == [k \in MetaKeys |-> IF b[k] # Undef THEN b[k] ELSE a[k]]

\* --------------------------------------------------------- property bags
NoRecurring == [is |-> Undef, interval |-> Undef, interval_count |-> Undef,
                usage_type |-> Undef, trial_period_days |-> Undef]
NoTiers == [is |-> Undef, items |-> << >>]
NoTransform == [is |-> Undef, divide_by |-> Undef, round |-> Undef]

\* Product.synthesizeProperties: name and active always, the rest when set
ProductBag(name, description, plan) ==
  [name |-> name, active |-> "true", description |-> description,
   metadata |-> UserMeta(plan)]

\* Price.synthesizeProperties: product, currency, active always
PriceBag(product, amount, nickname, plan) ==
  [product |-> product, currency |-> "usd", active |-> "true",
   unit_amount |-> amount, unit_amount_decimal |-> Undef,
   nickname |-> nickname, tax_behavior |-> Undef,
   recurring |-> NoRecurring, billing_scheme |-> Undef,
   tiers_mode |-> Undef, tiers |-> NoTiers,
   transform_quantity |-> NoTransform, lookup_key |-> Undef,
   metadata |-> UserMeta(plan)]

Monthly == [is |-> "obj", interval |-> "month", interval_count |-> Undef,
            usage_type |-> Undef, trial_period_days |-> Undef]

\* Coupon.synthesizeProperties: duration always, the rest when set (the remote
\* id is not part of the bag: the deployer adds it)
CouponBag(percent_off, plan) ==
  [id |-> Undef, duration |-> "once", percent_off |-> percent_off, name |-> Undef,
   metadata |-> UserMeta(plan)]

\* Stripe.Entitlements.FeatureCreateParams (active is set by the provider)
FeatureBag(name, lookup_key) ==
  [name |-> name, lookup_key |-> lookup_key, active |-> Undef, metadata |-> NoMeta]

\* Meter.synthesizeProperties: display_name, event_name and default_aggregation
\* always (status is set by the provider)
MeterBag(display_name, event_name) ==
  [display_name |-> display_name, event_name |-> event_name,
   default_aggregation |-> "count", status |-> Undef]

\* -------------------------------------------------- computePropertiesHash
\* JSON.stringify of one key: undefined members are left out
Member(k, v) == IF v = Undef THEN "" ELSE k \o ":" \o v \o ","

MetaJson(m) ==
  IF m = NoMeta THEN ""
  ELSE "metadata:{" \o Member("fillet_id", m["fillet_id"]) \o Member("plan", m["plan"])
       \o Member("pricectl_id", m["pricectl_id"]) \o Member("pricectl_path", m["pricectl_path"])
       \o Member("pricectl_properties_hash", m["pricectl_properties_hash"]) \o "},"

RecurringJson(r) ==
  IF r.is # "obj" THEN Member("recurring", r.is)
  ELSE "recurring:{" \o Member("interval", r.interval)
       \o Member("interval_count", r.interval_count)
       \o Member("trial_period_days", r.trial_period_days)
       \o Member("usage_type", r.usage_type) \o "},"

TransformJson(t) ==
  IF t.is # "obj" THEN Member("transform_quantity", t.is)
  ELSE "transform_quantity:{" \o Member("divide_by", t.divide_by)
       \o Member("round", t.round) \o "},"

TierJson(t) ==
  "{" \o Member("flat_amount", t.flat_amount) \o Member("unit_amount", t.unit_amount)
  \o Member("up_to", t.up_to) \o "},"

RECURSIVE TiersItemsJson(_)
TiersItemsJson(s) == IF s = << >> THEN "" ELSE TierJson(Head(s)) \o TiersItemsJson(Tail(s))

TiersJson(t) ==
  IF t.is # "obj" THEN Member("tiers", t.is)
  ELSE "tiers:[" \o TiersItemsJson(t.items) \o "],"

\* canonicalizeProperties + JSON.stringify: keys in sorted order at every depth
canonicalizeProperties(type, bag) ==
  IF type = TProduct
  THEN "{" \o Member("active", bag.active) \o Member("description", bag.description)
       \o MetaJson(bag.metadata) \o Member("name", bag.name) \o "}"
  ELSE IF type = TPrice
  THEN "{" \o Member("active", bag.active) \o Member("billing_scheme", bag.billing_scheme)
       \o Member("currency", bag.currency) \o Member("lookup_key", bag.lookup_key)
       \o MetaJson(bag.metadata) \o Member("nickname", bag.nickname)
       \o Member("product", bag.product) \o RecurringJson(bag.recurring)
       \o Member("tax_behavior", bag.tax_behavior) \o TiersJson(bag.tiers)
       \o Member("tiers_mode", bag.tiers_mode) \o TransformJson(bag.transform_quantity)
       \o Member("unit_amount", bag.unit_amount)
       \o Member("unit_amount_decimal", bag.unit_amount_decimal) \o "}"
  ELSE IF type = TCoupon
  THEN "{" \o Member("duration", bag.duration) \o Member("id", bag.id)
       \o MetaJson(bag.metadata) \o Member("name", bag.name)
       \o Member("percent_off", bag.percent_off) \o "}"
  ELSE IF type = TFeature
  THEN "{" \o Member("active", bag.active) \o Member("lookup_key", bag.lookup_key)
       \o MetaJson(bag.metadata) \o Member("name", bag.name) \o "}"
  ELSE IF type = TMeter
  THEN "{" \o "default_aggregation:{" \o Member("formula", bag.default_aggregation) \o "},"
       \o Member("display_name", bag.display_name) \o Member("event_name", bag.event_name)
       \o Member("status", bag.status) \o "}"
  ELSE "{}"

\* the digest of the canonical text (sha256 taken as collision free)
computePropertiesHash(type, bag) == "h" \o canonicalizeProperties(type, bag)

\* ------------------------------------------------------------- manifests
StackId == "TestStack"

Entry(id, type, properties) ==
  [id |-> id, path |-> StackId \o "/" \o id, type |-> type, properties |-> properties]

\* the declarations a user's program synthesizes (Stack.synth): a Product in two
\* versions, a Price that refers to the Product by its logical id in three
\* versions (the third differs from the second in its metadata only), and a
\* resource of a kind the deployer does not know
Widget == Entry("MyProduct", TProduct, ProductBag("Widget", Undef, Undef))
Gadget == Entry("MyProduct", TProduct, ProductBag("Gadget", Undef, Undef))
OneTime == Entry("MyPrice", TPrice, PriceBag("MyProduct", "500", Undef, Undef))
Monthly999 ==
  Entry("MyPrice", TPrice, [PriceBag("MyProduct", "999", Undef, Undef) EXCEPT !.recurring = Monthly])
Monthly999Pro ==
  Entry("MyPrice", TPrice, [PriceBag("MyProduct", "999", Undef, "pro") EXCEPT !.recurring = Monthly])
Other == Entry("Other", TUnknown, [name |-> Undef])

\* a Product whose own metadata defines the identity tag
Tagged ==
  Entry("MyProduct", TProduct,
        [ProductBag("Widget", Undef, Undef) EXCEPT !.metadata["pricectl_id"] = "Mine"])

\* a Coupon in two versions, an EntitlementFeature in two versions that keep
\* the business key, and a BillingMeter
Summer20 == Entry("SUMMER", TCoupon, CouponBag("20", Undef))
Summer25 == Entry("SUMMER", TCoupon, CouponBag("25", Undef))
ApiAccess == Entry("ApiAccess", TFeature, FeatureBag("API access", "api-access"))
ApiAccessRenamed == Entry("ApiAccess", TFeature, FeatureBag("API", "api-access"))
Requests == Entry("Requests", TMeter, MeterBag("Requests", "api_requests"))

\* manifest.resources of the manifests handed to deploy() and destroy()
Resources ==
  { <<Widget, OneTime>>,
    <<Gadget, Monthly999>>,
    <<Widget, Monthly999Pro>>,
    <<OneTime, Widget>>,
    <<Widget, Other, OneTime>>,
    <<Monthly999>>,
    <<Summer20, ApiAccess>>,
    <<Summer25, Requests>>,
    <<Tagged, ApiAccessRenamed>> }

Manifests == { [stackId |-> StackId, resources |-> r] : r \in Resources }

\* [...manifest.resources].reverse()
\* mutant of Reverse: manifest order
Reverse_Same(s) == s

Reverse(s) == [i \in 1..Len(s) |-> s[Len(s) + 1 - i]]

\* ------------------------------------------------------------ the remote
\* ids the provider hands out, in the order it creates objects
PhysNames == <<"obj_1", "obj_2", "obj_3", "obj_4", "obj_5", "obj_6", "obj_7", "obj_8">>

EmptyProductBag == [name |-> Undef, active |-> Undef, description |-> Undef, metadata |-> NoMeta]
EmptyPriceBag ==
  [product |-> Undef, currency |-> Undef, active |-> Undef,
   unit_amount |-> Undef, unit_amount_decimal |-> Undef,
   nickname |-> Undef, tax_behavior |-> Undef,
   recurring |-> NoRecurring, billing_scheme |-> Undef,
   tiers_mode |-> Undef, tiers |-> NoTiers,
   transform_quantity |-> NoTransform, lookup_key |-> Undef,
   metadata |-> NoMeta]

EmptyCouponBag ==
  [id |-> Undef, duration |-> Undef, percent_off |-> Undef, name |-> Undef, metadata |-> NoMeta]
EmptyFeatureBag == [name |-> Undef, lookup_key |-> Undef, active |-> Undef, metadata |-> NoMeta]
EmptyMeterBag ==
  [display_name |-> Undef, event_name |-> Undef, default_aggregation |-> Undef, status |-> Undef]

\* mutant of Deactivate: the update carries nothing
Deactivate_Nothing == EmptyPriceBag

\* { active: false }
Deactivate == [EmptyPriceBag EXCEPT !.active = "false"]

Over(old, new) == IF new # Undef THEN new ELSE old

\* what an update call leaves on the remote object: the fields the call
\* carries replace the old ones, metadata keys are merged, the rest stays
Updated(type, old, params) ==
  IF type = TProduct
  THEN [name |-> Over(old.name, params.name), active |-> Over(old.active, params.active),
        description |-> Over(old.description, params.description),
        metadata |-> Spread(old.metadata, params.metadata)]
  ELSE IF type = TPrice
  THEN [old EXCEPT !.active = Over(old.active, params.active),
                   !.nickname = Over(old.nickname, params.nickname),
                   !.lookup_key = Over(old.lookup_key, params.lookup_key),
                   !.metadata = Spread(old.metadata, params.metadata)]
  ELSE IF type = TFeature
  THEN [old EXCEPT !.name = Over(old.name, params.name),
                   !.active = Over(old.active, params.active),
                   !.metadata = Spread(old.metadata, params.metadata)]
  ELSE IF type = TMeter
  THEN [old EXCEPT !.display_name = Over(old.display_name, params.display_name)]
  ELSE old
\* --------------------------------------------------------------- state
VARIABLES
  hasState,             \* this.stateManager is set (third constructor argument)
  unsetAs,              \* how the provider reports a field nobody set: null or undefined
  remote,               \* remote id -> [type, bag, deleted]
  nextPhys,             \* objects the provider has created so far
  fails,                \* transient remote failures in the current run
  state,                \* StateFile.stacks: stackId -> logicalId -> ResourceState
  logicalToPhysicalId,  \* the deployer's substitution table
  runs,                 \* deploy()/destroy() calls made so far
  op,                   \* the running call: "deploy", "destroy" or "none"
  manifest,             \* its argument
  pc,                   \* where the running call stands
  idx,                  \* position of the loop over the resources
  inflight,             \* remote calls issued and not yet answered
  resp,                 \* the answer to the last remote call
  calls,                \* remote calls issued by the running call, in order
  deployed,             \* result.deployed
  destroyed,            \* result.destroyed
  errors,               \* result.errors
  disk,                 \* the files at filePath and at tmpPath
  spc,                  \* where the process that owns the StateManager stands
  procs,                \* the processes that share one state file, each with its StateManager
  lastRename,           \* the process whose renameSync came last
  last,                 \* the latest call made on a StateManager, and whether it threw
  input,                \* the argument a pure function is applied to
  output,               \* what the function returned
  nodes                 \* the constructs made so far, in the order of their construction

env == <<hasState, unsetAs, disk, spc, procs, lastRename, last, input, output, nodes>>
ctl == <<pc, idx, inflight, calls, deployed, destroyed, errors, logicalToPhysicalId, state>>
vars == <<hasState, unsetAs, remote, nextPhys, fails, state, logicalToPhysicalId, runs,
          op, manifest, pc, idx, inflight, resp, calls, deployed, destroyed, errors,
          disk, spc, procs, lastRename, last, input, output, nodes>>

EmptyMap == [x \in {} |-> Undef]
NoResp == [ok |-> TRUE, code |-> Undef, id |-> Undef]
NoManifest == [stackId |-> StackId, resources |-> << >>]

\* a Product an earlier deployment left on the remote (its state file is gone),
\* renamed by hand in the provider's dashboard since
LeftOver ==
  [type |-> TProduct, deleted |-> FALSE,
   bag |-> [ProductBag("Renamed", Undef, Undef) EXCEPT !.metadata =
              [NoMeta EXCEPT !["pricectl_id"] = "MyProduct",
                             !["pricectl_path"] = "TestStack/MyProduct",
                             !["pricectl_properties_hash"] =
                                computePropertiesHash(TProduct, ProductBag("Widget", Undef, Undef))]]]

\* a state file that still tracks a Product deleted by hand since
StaleState ==
  [s \in {StackId} |-> [l \in {"MyProduct"} |->
     [logicalId |-> "MyProduct", physicalId |-> PhysNames[1], type |-> TProduct,
      path |-> "TestStack/MyProduct", lastDeployedAt |-> 0,
      propertiesHash |-> computePropertiesHash(TProduct, ProductBag("Widget", Undef, Undef))]]]

\* the state file's path, and the path save() writes to first
filePath == "pricectl.state.json"

\* mutant of tmpPath: save() writes to the state file itself
tmpPath_InPlace == filePath

tmpPath == filePath \o ".tmp"

\* a path with no file
Missing == [exists |-> FALSE, readable |-> FALSE, text |-> << >>]

\* a directory with no state file in it
NoFiles == [p \in {filePath, tmpPath} |-> Missing]

\* the processes run side by side on one state file
Procs == {"p1", "p2"}

\* a process before `new StateManager(...)`
NotStarted == [pc |-> "start", state |-> EmptyMap, fd |-> "none", off |-> 0, edits |-> 0]

\* no function applied yet
NoValue == [t |-> "none", s |-> << >>, items |-> << >>]

\* no call made on the StateManager yet
NoCall == [call |-> "none", stackId |-> "", logicalId |-> "", threw |-> FALSE]

Init ==
  /\ disk = NoFiles
  /\ spc = "none"
  /\ procs = [p \in Procs |-> NotStarted]
  /\ lastRename = "none"
  /\ last = NoCall
  /\ input = NoValue
  /\ output = NoValue
  /\ nodes = << >>
  /\ hasState \in BOOLEAN
  /\ unsetAs \in {Undef, Null}
  /\ \/ /\ remote = EmptyMap /\ nextPhys = 0 /\ state = EmptyMap
     \/ /\ remote = [p \in {PhysNames[1]} |-> LeftOver] /\ nextPhys = 1 /\ state = EmptyMap
     \/ /\ hasState
        /\ remote = [p \in {PhysNames[1]} |-> [LeftOver EXCEPT !.deleted = TRUE]] /\ nextPhys = 1
        /\ state = StaleState
  /\ fails = 0
  /\ logicalToPhysicalId = EmptyMap
  /\ runs = 0
  /\ op = "none"
  /\ manifest = NoManifest
  /\ pc = "idle"
  /\ idx = 1
  /\ inflight = << >>
  /\ resp = NoResp
  /\ calls = << >>
  /\ deployed = << >>
  /\ destroyed = << >>
  /\ errors = << >>

\* ---------------------------------------------------------- StateManager
\* getResource(stackId, logicalId)?.physicalId
statePhysicalId(st, stackId, logicalId) ==
  IF stackId \in DOMAIN st /\ logicalId \in DOMAIN st[stackId]
  THEN st[stackId][logicalId].physicalId ELSE Undef

\* mutant of setResource: nothing is stored
setResource_Nothing(st, stackId, r) == st

setResource(st, stackId, r) ==
  LET cur == IF stackId \in DOMAIN st THEN st[stackId] ELSE EmptyMap
      new == [l \in DOMAIN cur \cup {r.logicalId} |-> IF l = r.logicalId THEN r ELSE cur[l]]
  IN [s \in DOMAIN st \cup {stackId} |-> IF s = stackId THEN new ELSE st[s]]

removeResource(st, stackId, logicalId) ==
  IF stackId \notin DOMAIN st THEN st
  ELSE LET new == [l \in DOMAIN st[stackId] \ {logicalId} |-> st[stackId][l]]
       IN IF DOMAIN new = {}
          THEN [s \in DOMAIN st \ {stackId} |-> st[s]]
          ELSE [st EXCEPT ![stackId] = new]

\* ------------------------------------------------- reading remote objects
Rd(v) == IF v = Undef THEN unsetAs ELSE v

\* the object a retrieve or a search returns for a Price
PriceView(bag) ==
  [product |-> Rd(bag.product), currency |-> Rd(bag.currency), active |-> Rd(bag.active),
   unit_amount |-> Rd(bag.unit_amount), unit_amount_decimal |-> Rd(bag.unit_amount_decimal),
   nickname |-> Rd(bag.nickname), tax_behavior |-> Rd(bag.tax_behavior),
   recurring |-> [is |-> Rd(bag.recurring.is), interval |-> Rd(bag.recurring.interval),
                  interval_count |-> Rd(bag.recurring.interval_count),
                  usage_type |-> Rd(bag.recurring.usage_type),
                  trial_period_days |-> Rd(bag.recurring.trial_period_days)],
   billing_scheme |-> Rd(bag.billing_scheme), tiers_mode |-> Rd(bag.tiers_mode),
   tiers |-> [is |-> Rd(bag.tiers.is),
              items |-> [i \in DOMAIN bag.tiers.items |->
                           [f \in DOMAIN bag.tiers.items[i] |-> Rd(bag.tiers.items[i][f])]]],
   transform_quantity |-> [is |-> Rd(bag.transform_quantity.is),
                           divide_by |-> Rd(bag.transform_quantity.divide_by),
                           round |-> Rd(bag.transform_quantity.round)],
   lookup_key |-> Rd(bag.lookup_key), metadata |-> bag.metadata]

TierField(t, f) == IF f \in DOMAIN t THEN t[f] ELSE Undef

\* mutant of comparePriceProperties: a Price found is never taken as it is
comparePriceProperties_Never(existing, desired) == FALSE

comparePriceProperties(existing, desired) ==
  /\ existing.product = desired.product
  /\ existing.currency = desired.currency
  /\ existing.unit_amount = desired.unit_amount
  /\ existing.unit_amount_decimal = desired.unit_amount_decimal
  /\ existing.active = desired.active
  /\ existing.nickname = desired.nickname
  /\ Coalesce(existing.tax_behavior) = Coalesce(desired.tax_behavior)
  /\ IF desired.recurring.is = "obj"
     THEN /\ existing.recurring.is = "obj"
          /\ existing.recurring.interval = desired.recurring.interval
          /\ existing.recurring.interval_count = desired.recurring.interval_count
          /\ existing.recurring.usage_type = desired.recurring.usage_type
          /\ Coalesce(existing.recurring.trial_period_days)
               = Coalesce(desired.recurring.trial_period_days)
     ELSE existing.recurring.is # "obj"
  /\ Coalesce(existing.billing_scheme) = Coalesce(desired.billing_scheme)
  /\ desired.tiers_mode = existing.tiers_mode
  /\ IF desired.tiers.is = "obj"
     THEN /\ existing.tiers.is = "obj"
          /\ Len(existing.tiers.items) = Len(desired.tiers.items)
          /\ \A i \in DOMAIN desired.tiers.items :
               \A f \in {"up_to", "unit_amount", "unit_amount_decimal",
                         "flat_amount", "flat_amount_decimal"} :
                 TierField(existing.tiers.items[i], f) = TierField(desired.tiers.items[i], f)
     ELSE existing.tiers.is # "obj"
  /\ IF desired.transform_quantity.is = "obj"
     THEN /\ existing.transform_quantity.is = "obj"
          /\ existing.transform_quantity.divide_by = desired.transform_quantity.divide_by
          /\ existing.transform_quantity.round = desired.transform_quantity.round
     ELSE existing.transform_quantity.is # "obj"
  /\ existing.lookup_key = desired.lookup_key
\* ------------------------------------------------------------ the deployer
\* the list the running loop walks: manifest order, reversed by destroy()
Walk == IF op = "destroy" THEN Reverse(manifest.resources) ELSE manifest.resources
Current == Walk[idx]

\* mutant of resolveDependencies: the bag is used as written
resolveDependencies_AsWritten(properties) == properties

\* resolveDependencies(properties)
resolveDependencies(properties) ==
  IF properties.product # Undef /\ properties.product \in DOMAIN logicalToPhysicalId
  THEN [properties EXCEPT !.product = logicalToPhysicalId[properties.product]]
  ELSE properties

\* mutant of WithTags: the user's metadata is spread last
WithTags_UserWins(props, r) ==
  [props EXCEPT !.metadata =
     Spread([NoMeta EXCEPT !["pricectl_id"] = r.id, !["pricectl_path"] = r.path], @)]

\* { ...props, metadata: { ...props.metadata, pricectl_id, pricectl_path } }
WithTags(props, r) ==
  [props EXCEPT !.metadata = [@ EXCEPT !["pricectl_id"] = r.id, !["pricectl_path"] = r.path]]

\* the same with pricectl_properties_hash (Products)
WithHash(props, r) ==
  [WithTags(props, r) EXCEPT !.metadata["pricectl_properties_hash"] =
                                computePropertiesHash(r.type, r.properties)]

NoParams(type) ==
  IF type = TProduct THEN EmptyProductBag
  ELSE IF type = TPrice THEN EmptyPriceBag
  ELSE IF type = TCoupon THEN EmptyCouponBag
  ELSE IF type = TFeature THEN EmptyFeatureBag
  ELSE EmptyMeterBag

\* the business key an EntitlementFeature or a BillingMeter is looked up by
BusinessKey(r) == IF r.type = TFeature THEN r.properties.lookup_key ELSE r.properties.event_name

\* a remote call: its place in the run, the entry it is made for, and what the
\* provider answered (filled in when the answer arrives)
Call(api, type, id, bag) ==
  [n |-> Len(calls) + 1, entry |-> idx, lid |-> Current.id, api |-> api, type |-> type,
   id |-> id, bag |-> bag, status |-> "pending", answer |-> Undef]

\* mutant of Awaited: the deactivation of the old Price is fired and not awaited
Awaited_ExceptDeactivate == inflight = << >> \/ pc = "deactivate"

\* `await`: the code after a remote call runs once the call has been answered
Awaited == inflight = << >>

\* issue a remote call and suspend at `at`
Issue(c, at) ==
  /\ inflight' = Append(inflight, c)
  /\ calls' = Append(calls, c)
  /\ pc' = at
  /\ UNCHANGED <<idx, deployed, destroyed, errors, logicalToPhysicalId, state>>

\* deploy(): the statements after `await this.deployResource(...)` in the try block
Succeed(status, physicalId) ==
  LET r == Current IN
  /\ deployed' = Append(deployed, [id |-> r.id, type |-> r.type,
                                   physicalId |-> physicalId, status |-> status])
  /\ logicalToPhysicalId' =
       [l \in DOMAIN logicalToPhysicalId \cup {r.id} |->
          IF l = r.id THEN physicalId ELSE logicalToPhysicalId[l]]
  /\ state' = IF hasState
              THEN setResource(state, manifest.stackId,
                     [logicalId |-> r.id, physicalId |-> physicalId, type |-> r.type,
                      path |-> r.path, lastDeployedAt |-> runs,
                      propertiesHash |-> computePropertiesHash(r.type, r.properties)])
              ELSE state
  /\ idx' = idx + 1
  /\ pc' = "next"
  /\ UNCHANGED <<inflight, calls, destroyed, errors>>

\* mutant of Catch: the error is not caught at the entry boundary
Catch_Rethrow(message) ==
  /\ pc' = "thrown"
  /\ UNCHANGED <<idx, inflight, calls, deployed, destroyed, errors, logicalToPhysicalId, state>>

\* the catch block of deploy() and of destroy()
Catch(message) ==
  /\ errors' = Append(errors, [id |-> Current.id, type |-> Current.type, error |-> message])
  /\ idx' = idx + 1
  /\ pc' = "next"
  /\ UNCHANGED <<inflight, calls, deployed, destroyed, logicalToPhysicalId, state>>

\* mutant of Removed: a null result is pushed like any other
Removed_PushNull(status) ==
  /\ destroyed' = Append(destroyed, [id |-> Current.id, type |-> Current.type, status |-> status])
  /\ state' = IF hasState THEN removeResource(state, manifest.stackId, Current.id) ELSE state
  /\ idx' = idx + 1
  /\ pc' = "next"
  /\ UNCHANGED <<inflight, calls, deployed, errors, logicalToPhysicalId>>

\* mutant of Removed: a null result is recorded as an error of the entry
Removed_ErrorOnNull(status) ==
  /\ destroyed' = IF status # Undef
                  THEN Append(destroyed, [id |-> Current.id, type |-> Current.type, status |-> status])
                  ELSE destroyed
  /\ errors' = IF status = Undef
               THEN Append(errors, [id |-> Current.id, type |-> Current.type, error |-> "not found"])
               ELSE errors
  /\ state' = IF hasState THEN removeResource(state, manifest.stackId, Current.id) ELSE state
  /\ idx' = idx + 1
  /\ pc' = "next"
  /\ UNCHANGED <<inflight, calls, deployed, logicalToPhysicalId>>

\* mutant of Removed: the state entry is removed only with a remote object destroyed
Removed_KeepStateOnNull(status) ==
  /\ destroyed' = IF status # Undef
                  THEN Append(destroyed, [id |-> Current.id, type |-> Current.type, status |-> status])
                  ELSE destroyed
  /\ state' = IF hasState /\ status # Undef
              THEN removeResource(state, manifest.stackId, Current.id) ELSE state
  /\ idx' = idx + 1
  /\ pc' = "next"
  /\ UNCHANGED <<inflight, calls, deployed, errors, logicalToPhysicalId>>

\* destroy(): the statements after `await this.destroyResource(...)`;
\* status is Undef when destroyResource returned null
Removed(status) ==
  /\ destroyed' = IF status # Undef
                  THEN Append(destroyed, [id |-> Current.id, type |-> Current.type, status |-> status])
                  ELSE destroyed
  /\ state' = IF hasState THEN removeResource(state, manifest.stackId, Current.id) ELSE state
  /\ idx' = idx + 1
  /\ pc' = "next"
  /\ UNCHANGED <<inflight, calls, deployed, errors, logicalToPhysicalId>>

\* the tag search of findExistingProduct / findExistingPrice
Search(r) == Issue(Call("search", r.type, r.id, NoParams(r.type)), "search")

\* findExistingProduct / findExistingPrice: the state entry first, else the search
FindExisting(r) ==
  LET known == IF hasState THEN statePhysicalId(state, manifest.stackId, r.id) ELSE Undef
  IN IF known # Undef
     THEN Issue(Call("retrieve", r.type, known, NoParams(r.type)), "retrieve")
     ELSE Search(r)

\* deployEntitlementFeature: { name: props.name, metadata: { ...props.metadata, tags } }
FeatureUpdate(props, r) ==
  [EmptyFeatureBag EXCEPT !.name = props.name, !.metadata = WithTags(props, r).metadata]

\* mutant of MeterUpdate: the whole bag is sent
MeterUpdate_All(props) == props

\* deployBillingMeter: { display_name: props.display_name }
MeterUpdate(props) == [EmptyMeterBag EXCEPT !.display_name = props.display_name]

\* mutant of HashMatches: the hash kept in the state store is the one compared
HashMatches_InState(r, found) ==
  /\ manifest.stackId \in DOMAIN state
  /\ r.id \in DOMAIN state[manifest.stackId]
  /\ state[manifest.stackId][r.id].propertiesHash = computePropertiesHash(r.type, r.properties)

\* deployProduct: existingHash === desiredHash
HashMatches(r, found) ==
  remote[found].bag.metadata["pricectl_properties_hash"]
    = computePropertiesHash(r.type, r.properties)

\* mutant of destroyResource: whatever is found is deleted
destroyResource_DeleteAll(r, found) ==
  IF found # Undef
  THEN Issue(Call("del", r.type, found, NoParams(r.type)), "deleting")
  ELSE Removed(Undef)

\* destroyResource once the lookup has returned `found` (a remote id, or Undef for null)
destroyResource(r, found) ==
  IF found = Undef THEN Removed(Undef)
  ELSE IF r.type \in {TProduct, TCoupon}
  THEN Issue(Call("del", r.type, found, NoParams(r.type)), "deleting")
  ELSE IF r.type = TPrice
  THEN Issue(Call("update", TPrice, found, Deactivate), "deactivating")
  ELSE IF r.type = TFeature
  THEN Issue(Call("update", TFeature, found, [EmptyFeatureBag EXCEPT !.active = "false"]),
             "deactivating")
  ELSE Issue(Call("deactivate", TMeter, found, EmptyMeterBag), "deactivating")

\* deployProduct / deployPrice / deployCoupon / deployEntitlementFeature /
\* deployBillingMeter / destroyResource once the lookup has returned
\* `found` (a remote id, or Undef for null)
Decide(found) ==
  LET r == Current
      props == IF r.type = TPrice THEN resolveDependencies(r.properties) ELSE r.properties
  IN
  IF op = "deploy" /\ r.type = TProduct THEN
    IF found # Undef
    THEN IF HashMatches(r, found)
         THEN Succeed("unchanged", found)
         ELSE Issue(Call("update", TProduct, found, WithHash(props, r)), "update")
    ELSE Issue(Call("create", TProduct, Undef, WithHash(props, r)), "create")
  ELSE IF op = "deploy" /\ r.type = TCoupon THEN
    IF found # Undef
    THEN Succeed("unchanged", found)
    ELSE Issue(Call("create", TCoupon, Undef, WithTags([props EXCEPT !.id = r.id], r)), "create")
  ELSE IF op = "deploy" /\ r.type = TFeature THEN
    IF found # Undef
    THEN Issue(Call("update", TFeature, found, FeatureUpdate(props, r)), "update")
    ELSE Issue(Call("create", TFeature, Undef, WithTags(props, r)), "create")
  ELSE IF op = "deploy" /\ r.type = TMeter THEN
    IF found # Undef
    THEN Issue(Call("update", TMeter, found, MeterUpdate(props)), "update")
    ELSE Issue(Call("create", TMeter, Undef, props), "create")
  ELSE IF op = "deploy" THEN
    IF found # Undef
    THEN IF comparePriceProperties(PriceView(remote[found].bag), props)
         THEN Succeed("unchanged", found)
         ELSE Issue(Call("update", TPrice, found, Deactivate), "deactivate")
    ELSE Issue(Call("create", TPrice, Undef, WithTags(props, r)), "create")
  ELSE destroyResource(r, found)

UnknownType(r) == "Unknown resource type: " \o r.type

\* mutant of StartDeploy: the substitution table survives from the call before
StartDeploy_KeepTable(m) ==
  /\ pc \in {"idle", "done"} /\ runs < MaxRuns
  /\ op' = "deploy" /\ manifest' = m /\ runs' = runs + 1
  /\ deployed' = << >> /\ errors' = << >> /\ destroyed' = << >>
  /\ calls' = << >> /\ fails' = 0 /\ resp' = NoResp
  /\ idx' = 1 /\ pc' = "next"
  /\ UNCHANGED <<env, remote, nextPhys, state, inflight, logicalToPhysicalId>>

StartDeploy(m) ==
  /\ pc \in {"idle", "done"} /\ runs < MaxRuns
  /\ op' = "deploy" /\ manifest' = m /\ runs' = runs + 1
  /\ deployed' = << >> /\ errors' = << >> /\ destroyed' = << >>
  /\ logicalToPhysicalId' = EmptyMap
  /\ calls' = << >> /\ fails' = 0 /\ resp' = NoResp
  /\ idx' = 1 /\ pc' = "next"
  /\ UNCHANGED <<env, remote, nextPhys, state, inflight>>

StartDestroy(m) ==
  /\ pc \in {"idle", "done"} /\ runs < MaxRuns
  /\ op' = "destroy" /\ manifest' = m /\ runs' = runs + 1
  /\ deployed' = << >> /\ errors' = << >> /\ destroyed' = << >>
  /\ calls' = << >> /\ fails' = 0 /\ resp' = NoResp
  /\ idx' = 1 /\ pc' = "next"
  /\ UNCHANGED <<env, remote, nextPhys, state, inflight, logicalToPhysicalId>>

\* one turn of the for loop, up to its first remote call
Entry_ ==
  /\ pc = "next" /\ Awaited /\ idx <= Len(Walk)
  /\ IF Current.type \in {TProduct, TPrice}
     THEN FindExisting(Current)
     ELSE IF Current.type = TCoupon
     THEN Issue(Call("retrieve", TCoupon, Current.id, EmptyCouponBag), "coupon")
     ELSE IF Current.type \in {TFeature, TMeter}
     THEN Issue(Call("list", Current.type, BusinessKey(Current), NoParams(Current.type)), "list")
     ELSE Catch(UnknownType(Current))
  /\ UNCHANGED <<env, remote, nextPhys, fails, runs, op, manifest, resp>>

\* the loop is over: return result
Return ==
  /\ pc = "next" /\ Awaited /\ idx > Len(Walk)
  /\ pc' = "done"
  /\ UNCHANGED <<env, remote, nextPhys, fails, state, logicalToPhysicalId, runs, op, manifest,
                 idx, inflight, resp, calls, deployed, destroyed, errors>>

\* mutant of AfterRetrieve: every error of the retrieval falls through to the search
AfterRetrieve_Swallow ==
  /\ pc = "retrieve" /\ Awaited
  /\ IF resp.ok /\ ~(Current.type = TProduct /\ remote[resp.id].deleted)
     THEN Decide(resp.id)
     ELSE Search(Current)
  /\ UNCHANGED <<env, remote, nextPhys, fails, runs, op, manifest, resp>>

\* findExisting*: after `await stripe.<kind>.retrieve(stateEntry.physicalId)`
AfterRetrieve ==
  /\ pc = "retrieve" /\ Awaited
  /\ IF resp.ok
     THEN IF Current.type = TProduct /\ remote[resp.id].deleted
          THEN Search(Current)
          ELSE Decide(resp.id)
     ELSE IF resp.code # ResourceMissing
          THEN Catch(resp.code)
          ELSE Search(Current)
  /\ UNCHANGED <<env, remote, nextPhys, fails, runs, op, manifest, resp>>

\* findExisting*: after `await stripe.<kind>.search(...)`
AfterSearch ==
  /\ pc = "search" /\ Awaited
  /\ IF resp.ok
     THEN Decide(resp.id)
     ELSE IF resp.code = ResourceMissing
          THEN Decide(Undef)
          ELSE Catch(resp.code)
  /\ UNCHANGED <<env, remote, nextPhys, fails, runs, op, manifest, resp>>

\* findExistingCoupon: after `await this.stripe.coupons.retrieve(logicalId)`
AfterCouponRetrieve ==
  /\ pc = "coupon" /\ Awaited
  /\ IF resp.ok
     THEN Decide(resp.id)
     ELSE IF isResourceNotFoundError(resp.code)
          THEN Decide(Undef)
          ELSE Catch(resp.code)
  /\ UNCHANGED <<env, remote, nextPhys, fails, runs, op, manifest, resp>>

\* findExistingEntitlementFeature / findExistingBillingMeter: after
\* `await ...list({ limit: 100 })`, result.data.find(...) ?? null
AfterList ==
  /\ pc = "list" /\ Awaited
  /\ IF resp.ok
     THEN Decide(resp.id)
     ELSE IF isResourceNotFoundError(resp.code)
          THEN Decide(Undef)
          ELSE Catch(resp.code)
  /\ UNCHANGED <<env, remote, nextPhys, fails, runs, op, manifest, resp>>

\* deployPrice: after `await this.stripe.prices.update(existing.id, { active: false })`
AfterDeactivate ==
  /\ pc = "deactivate" /\ Awaited
  /\ IF resp.ok
     THEN Issue(Call("create", TPrice, Undef,
                     WithTags(resolveDependencies(Current.properties), Current)), "create")
     ELSE Catch(resp.code)
  /\ UNCHANGED <<env, remote, nextPhys, fails, runs, op, manifest, resp>>

\* deployProduct / deployEntitlementFeature / deployBillingMeter: after `await ...update(...)`
AfterUpdate ==
  /\ pc = "update" /\ Awaited
  /\ IF resp.ok THEN Succeed("updated", resp.id) ELSE Catch(resp.code)
  /\ UNCHANGED <<env, remote, nextPhys, fails, runs, op, manifest, resp>>

\* deployProduct / deployPrice: after `await this.stripe.<kind>.create(...)`
AfterCreate ==
  /\ pc = "create" /\ Awaited
  /\ IF resp.ok THEN Succeed("created", resp.id) ELSE Catch(resp.code)
  /\ UNCHANGED <<env, remote, nextPhys, fails, runs, op, manifest, resp>>

\* destroyResource: after `await this.stripe.products.del(existing.id)` / `coupons.del`
AfterDelete ==
  /\ pc = "deleting" /\ Awaited
  /\ IF resp.ok THEN Removed("deleted") ELSE Catch(resp.code)
  /\ UNCHANGED <<env, remote, nextPhys, fails, runs, op, manifest, resp>>

\* destroyResource: after `await this.stripe.prices.update(existing.id, { active: false })`,
\* `entitlements.features.update(existing.id, { active: false })`, `billing.meters.deactivate`
AfterDestroyDeactivate ==
  /\ pc = "deactivating" /\ Awaited
  /\ IF resp.ok THEN Removed("deactivated") ELSE Catch(resp.code)
  /\ UNCHANGED <<env, remote, nextPhys, fails, runs, op, manifest, resp>>

\* ------------------------------------------------------------ the provider
Exists(c) == c.id \in DOMAIN remote /\ remote[c.id].type = c.type

\* objects a tag search for the logical id matches (current or legacy tag)
Matches(c) ==
  { p \in DOMAIN remote :
      /\ remote[p].type = c.type
      /\ ~remote[p].deleted
      /\ \/ remote[p].bag.metadata["pricectl_id"] = c.id
         \/ remote[p].bag.metadata["fillet_id"] = c.id }

\* the first element of the listed page whose business key is the one looked for
\* (in the order the provider lists them)
Listed(c) ==
  { p \in DOMAIN remote :
      /\ remote[p].type = c.type
      /\ IF c.type = TFeature THEN remote[p].bag.lookup_key = c.id
                              ELSE remote[p].bag.event_name = c.id }

\* the calls the provider can serve, and the ids it can answer with
\* (search: limit 1, the first match in an order the provider chooses)
Answers(c) ==
  IF c.api = "search" THEN (IF Matches(c) = {} THEN {Undef} ELSE Matches(c))
  ELSE IF c.api = "list" THEN (IF Listed(c) = {} THEN {Undef} ELSE Listed(c))
  ELSE IF c.api = "create" /\ c.type = TCoupon
  THEN (IF c.bag.id \in DOMAIN remote /\ ~remote[c.bag.id].deleted THEN {} ELSE {c.bag.id})
  ELSE IF c.api = "create" THEN (IF nextPhys < MaxPhys THEN {PhysNames[nextPhys + 1]} ELSE {})
  ELSE IF c.api = "retrieve" /\ c.type = TProduct THEN (IF Exists(c) THEN {c.id} ELSE {})
  ELSE IF Exists(c) /\ ~remote[c.id].deleted THEN {c.id} ELSE {}

\* what the provider sets on an object it creates
Defaults(type, bag) ==
  IF type = TFeature THEN [bag EXCEPT !.active = "true"]
  ELSE IF type = TMeter THEN [bag EXCEPT !.status = "active"]
  ELSE bag

\* the remote after the call has been served
Served(c, id) ==
  IF c.api = "create"
  THEN [p \in DOMAIN remote \cup {id} |->
          IF p = id THEN [type |-> c.type, bag |-> Defaults(c.type, c.bag), deleted |-> FALSE]
          ELSE remote[p]]
  ELSE IF c.api = "update"
  THEN [remote EXCEPT ![id].bag = Updated(c.type, @, c.bag)]
  ELSE IF c.api = "deactivate"
  THEN [remote EXCEPT ![id].bag.status = "inactive"]
  ELSE IF c.api = "del"
  THEN [remote EXCEPT ![id].deleted = TRUE]
  ELSE remote

\* the log of calls once call c has been answered
Answered(c, status, answer) ==
  [calls EXCEPT ![c.n].status = status, ![c.n].answer = answer]

\* the provider serves the call
RespondOk ==
  /\ inflight # << >>
  /\ \E id \in Answers(Head(inflight)) :
       /\ resp' = [ok |-> TRUE, code |-> Undef, id |-> id]
       /\ remote' = Served(Head(inflight), id)
       /\ calls' = Answered(Head(inflight), "ok", id)
  /\ nextPhys' = IF Head(inflight).api = "create" /\ Head(inflight).type # TCoupon
                 THEN nextPhys + 1 ELSE nextPhys
  /\ inflight' = Tail(inflight)
  /\ UNCHANGED <<env, fails, state, logicalToPhysicalId, runs, op, manifest, pc, idx,
                 deployed, destroyed, errors>>

\* the object is not there: a retrieve, update or delete is refused with resource_missing
RespondMissing ==
  /\ inflight # << >>
  /\ Head(inflight).api \in {"retrieve", "update", "del", "deactivate"}
  /\ IF Exists(Head(inflight)) THEN remote[Head(inflight).id].deleted ELSE TRUE
  /\ resp' = [ok |-> FALSE, code |-> ResourceMissing, id |-> Undef]
  /\ calls' = Answered(Head(inflight), "error", ResourceMissing)
  /\ inflight' = Tail(inflight)
  /\ UNCHANGED <<env, remote, nextPhys, fails, state, logicalToPhysicalId, runs, op, manifest,
                 pc, idx, deployed, destroyed, errors>>

\* any call can fail (network, auth, quota, validation by the provider)
RespondError ==
  /\ inflight # << >>
  /\ fails < MaxFail \/ Answers(Head(inflight)) = {}
  /\ resp' = [ok |-> FALSE, code |-> ApiError, id |-> Undef]
  /\ calls' = Answered(Head(inflight), "error", ApiError)
  /\ fails' = IF fails < MaxFail THEN fails + 1 ELSE fails
  /\ inflight' = Tail(inflight)
  /\ UNCHANGED <<env, remote, nextPhys, state, logicalToPhysicalId, runs, op, manifest,
                 pc, idx, deployed, destroyed, errors>>

Next ==
  \/ \E m \in Manifests : StartDeploy(m)
  \/ \E m \in Manifests : StartDestroy(m)
  \/ Entry_
  \/ Return
  \/ AfterRetrieve
  \/ AfterSearch
  \/ AfterCouponRetrieve
  \/ AfterList
  \/ AfterDeactivate
  \/ AfterUpdate
  \/ AfterCreate
  \/ AfterDelete
  \/ AfterDestroyDeactivate
  \/ RespondOk
  \/ RespondMissing
  \/ RespondError

Spec == Init /\ [][Next]_vars
\* ================================================================ claims
\* position of a logical id in the manifest, and how often a list names it
Pos(lid) == CHOOSE i \in DOMAIN manifest.resources : manifest.resources[i].id = lid
Count(list, lid) == Cardinality({i \in DOMAIN list : list[i].id = lid})
Finished(o) == pc = "done" /\ op = o

\* the user-configurable part of a remote object: its bag without the identity tags
UserConfigurable(bag) ==
  [bag EXCEPT !.metadata = [k \in MetaKeys |-> IF k = "plan" THEN @[k] ELSE Undef]]

\* the desired bag with its product reference resolved by the finished run
ResolvedBag(r) ==
  IF r.type = TPrice /\ r.properties.product \in DOMAIN logicalToPhysicalId
  THEN [r.properties EXCEPT !.product = logicalToPhysicalId[r.properties.product]]
  ELSE r.properties

\* C1: after deploy() returns with no errors, the remote object reported for
\* every Product and Price entry has user-configurable fields equal to the
\* entry's desired property bag (product reference resolved or as written),
\* whatever the remote held before.
C1_RemoteEqualsDesired ==
  (Finished("deploy") /\ errors = << >>) =>
    \A i \in DOMAIN deployed :
      LET r == manifest.resources[i] IN
        r.type \in {TProduct, TPrice} =>
          UserConfigurable(remote[deployed[i].physicalId].bag)
            \in {UserConfigurable(r.properties), UserConfigurable(ResolvedBag(r))}

\* the running entry raises in the next step: a remote call made for it has
\* failed with an error other than not-found, or its kind is unknown
Raises ==
  /\ Awaited
  /\ \/ pc \in {"retrieve", "search", "coupon", "list", "deactivate", "update", "create"}
        /\ ~resp.ok /\ resp.code = ApiError
     \/ pc = "next" /\ idx <= Len(manifest.resources)
        /\ Current.type \notin {TProduct, TPrice, TCoupon, TFeature, TMeter}

RaisedMessage == IF pc = "next" THEN "Unknown resource type: " \o Current.type ELSE resp.code

\* C2: in deploy(), an error raised while an entry is processed is recorded in
\* errors with the entry's logical id, kind and message, the loop goes on to the
\* next entry, and when deploy() returns every entry has been processed.
C2_ErrorsAreIsolated ==
  /\ [][ (op = "deploy" /\ Raises) =>
           /\ errors' = Append(errors, [id |-> Current.id, type |-> Current.type,
                                        error |-> RaisedMessage])
           /\ idx' = idx + 1 /\ pc' = "next"
           /\ deployed' = deployed ]_vars
  /\ [](op = "deploy" => pc \in {"next", "retrieve", "search", "coupon", "list", "deactivate",
                                  "update", "create", "done"})
  /\ [](Finished("deploy") =>
          \A i \in DOMAIN manifest.resources :
            Count(deployed, manifest.resources[i].id) + Count(errors, manifest.resources[i].id) >= 1)

\* a remote failure on one entry, and a later entry deployed all the same
C2_Witness ==
  /\ Finished("deploy")
  /\ \E i \in DOMAIN errors, j \in DOMAIN deployed :
       /\ errors[i].error = ApiError
       /\ Pos(errors[i].id) < Pos(deployed[j].id)

\* the list of successes of the finished call
Successes == IF op = "deploy" THEN deployed ELSE destroyed
Outcomes(lid) == Count(Successes, lid) + Count(errors, lid)

\* C3 as stated: after deploy() or destroy() returns, every manifest entry is
\* exactly once in the success list or in errors.
C3_ExactlyOneOutcome ==
  pc = "done" => \A i \in DOMAIN manifest.resources : Outcomes(manifest.resources[i].id) = 1

\* the lookup made for an entry found no remote object: the last call made for
\* it is a tag search that the provider answered with an empty list
FoundNothing(lid) ==
  \E k \in DOMAIN calls :
    /\ calls[k].lid = lid
    /\ \/ calls[k].api \in {"search", "list"} /\ calls[k].status = "ok" /\ calls[k].answer = Undef
       \/ calls[k].api = "retrieve" /\ calls[k].type = TCoupon /\ calls[k].answer = ResourceMissing
    /\ \A l \in DOMAIN calls : calls[l].lid = lid => l <= k

\* C3 amended: after deploy() every entry has exactly one outcome; after
\* destroy() every entry has at most one, and it has none exactly when the
\* lookup found no remote object for it.
C3_OneOutcomeUnlessNotFound ==
  pc = "done" =>
    \A i \in DOMAIN manifest.resources :
      LET lid == manifest.resources[i].id IN
        IF op = "destroy" /\ FoundNothing(lid) THEN Outcomes(lid) = 0 ELSE Outcomes(lid) = 1

\* destroy() returned: one entry was destroyed, another had nothing to destroy
C3_Witness ==
  /\ Finished("destroy")
  /\ \E i, j \in DOMAIN manifest.resources :
       /\ Outcomes(manifest.resources[i].id) = 0
       /\ Count(destroyed, manifest.resources[j].id) = 1
\* C4: deploy() takes the entries in manifest order and one at a time: the
\* calls it issues are for entries in nondecreasing manifest position, each
\* call has been answered before the next one is issued, and never are two
\* calls in flight.
C4_OneCallAtATime ==
  op = "deploy" =>
    /\ Len(inflight) <= 1
    /\ \A k \in DOMAIN calls :
         /\ calls[k].lid = manifest.resources[calls[k].entry].id
         /\ \A l \in DOMAIN calls :
              k < l => calls[k].entry <= calls[l].entry /\ calls[k].status # "pending"

\* the create call of a replaced Price is in flight, its deactivation answered,
\* in a run whose earlier entry made calls of its own
C4_Witness ==
  /\ op = "deploy" /\ Len(inflight) = 1 /\ Head(inflight).api = "create"
  /\ \E k, l \in DOMAIN calls :
       /\ calls[k].entry < calls[l].entry
       /\ calls[l].api = "update" /\ calls[l].type = TPrice /\ calls[l].status = "ok"

\* the entry at position i names, as its product, the logical id of an entry
\* at an earlier position that this run has deployed
NamesDeployed(i) ==
  \E j \in DOMAIN deployed :
    /\ deployed[j].id = manifest.resources[i].properties.product
    /\ Pos(deployed[j].id) < i

PhysicalOf(lid) == deployed[CHOOSE j \in DOMAIN deployed : deployed[j].id = lid].physicalId

\* C5: a Price whose product field is the logical id of an entry deployed
\* earlier in the same deploy() run is created with the physical id reported
\* for that entry, and is left unchanged only if the remote Price belongs to
\* that physical id.
C5_ProductReferenceResolved ==
  op = "deploy" =>
    /\ \A k \in DOMAIN calls :
         (calls[k].api = "create" /\ calls[k].type = TPrice /\ NamesDeployed(calls[k].entry)) =>
           calls[k].bag.product = PhysicalOf(manifest.resources[calls[k].entry].properties.product)
    /\ \A i \in DOMAIN deployed :
         (deployed[i].type = TPrice /\ deployed[i].status = "unchanged"
            /\ NamesDeployed(Pos(deployed[i].id))) =>
           remote[deployed[i].physicalId].bag.product
             = PhysicalOf(manifest.resources[Pos(deployed[i].id)].properties.product)

\* a Price created under the physical id of the Product deployed just before it
C5_Witness ==
  /\ Finished("deploy")
  /\ \E k \in DOMAIN calls :
       /\ calls[k].api = "create" /\ calls[k].type = TPrice /\ calls[k].status = "ok"
       /\ NamesDeployed(calls[k].entry)
       /\ manifest.resources[calls[k].entry].properties.product = "MyProduct"
       /\ calls[k].bag.product \in DOMAIN remote

\* C6: the substitution table is emptied when deploy() starts, and during the
\* run it maps exactly the logical ids deployed so far to their physical ids;
\* a product reference to any other id is sent as written.
C6_TableIsThisRun ==
  /\ [][(op' = "deploy" /\ runs' # runs) => logicalToPhysicalId' = EmptyMap]_vars
  /\ [](op = "deploy" =>
          /\ DOMAIN logicalToPhysicalId = {deployed[i].id : i \in DOMAIN deployed}
          /\ \A i \in DOMAIN deployed : logicalToPhysicalId[deployed[i].id] = deployed[i].physicalId
          /\ \A k \in DOMAIN calls :
               (calls[k].api = "create" /\ calls[k].type = TPrice
                  /\ ~NamesDeployed(calls[k].entry)) =>
                 calls[k].bag.product = manifest.resources[calls[k].entry].properties.product)

\* the second deploy() of a deployer whose first one deployed MyProduct creates
\* a Price under the logical id, as written
C6_Witness ==
  /\ op = "deploy" /\ runs = 2 /\ hasState
  /\ StackId \in DOMAIN state /\ "MyProduct" \in DOMAIN state[StackId]
  /\ state[StackId]["MyProduct"].lastDeployedAt = 1
  /\ \E k \in DOMAIN calls :
       /\ calls[k].api = "create" /\ calls[k].type = TPrice /\ calls[k].status = "ok"
       /\ calls[k].bag.product = "MyProduct"

\* the entry has been fully processed: it has its outcome, or had nothing to destroy
Processed(lid) == Outcomes(lid) = 1 \/ FoundNothing(lid)

\* C7: destroy() takes the entries in reverse manifest order: its calls are for
\* entries in nonincreasing manifest position, and when a call is issued for
\* an entry every entry declared after it has been fully processed.
C7_ReverseOrder ==
  op = "destroy" =>
    /\ \A k, l \in DOMAIN calls : k < l => Pos(calls[k].lid) >= Pos(calls[l].lid)
    /\ \A k \in DOMAIN calls, i \in DOMAIN manifest.resources :
         i > Pos(calls[k].lid) => Processed(manifest.resources[i].id)

\* a Product and the Price declared after it, both destroyed
C7_Witness ==
  /\ Finished("destroy")
  /\ Len(destroyed) = 2
  /\ destroyed[1].type = TPrice /\ destroyed[2].type = TProduct
  /\ Pos(destroyed[1].id) > Pos(destroyed[2].id)
\* the lookup made for the running entry of deploy() has returned, and the next
\* step decides what to do with what it found
Looked(type) ==
  /\ op = "deploy" /\ Awaited
  /\ \/ pc = "search" /\ (resp.ok \/ resp.code = ResourceMissing)
     \/ pc = "retrieve" /\ resp.ok /\ ~remote[resp.id].deleted
  /\ Current.type = type

\* the remote id the lookup returned, Undef for none
Existing == IF resp.ok THEN resp.id ELSE Undef

\* the bag deployPrice compares and creates with
Desired == resolveDependencies(Current.properties)

ScalarFields ==
  {"product", "currency", "unit_amount", "unit_amount_decimal", "active", "nickname",
   "tax_behavior", "billing_scheme", "tiers_mode", "lookup_key"}
TierFields == {"up_to", "unit_amount", "unit_amount_decimal", "flat_amount", "flat_amount_decimal"}

\* a is the same value as b; loosely, an unset field is the same whether it is
\* reported as null or left out
Eq(a, b, loose) == IF loose THEN Coalesce(a) = Coalesce(b) ELSE a = b

\* every compared field of the existing Price e equals the desired bag d
SameFields(e, d, loose) ==
  /\ \A f \in ScalarFields : Eq(e[f], d[f], loose)
  /\ \A o \in {"recurring", "tiers", "transform_quantity"} : (e[o].is = "obj") <=> (d[o].is = "obj")
  /\ d.recurring.is = "obj" =>
       \A f \in {"interval", "interval_count", "usage_type", "trial_period_days"} :
         Eq(e.recurring[f], d.recurring[f], loose)
  /\ d.tiers.is = "obj" =>
       /\ Len(e.tiers.items) = Len(d.tiers.items)
       /\ \A i \in DOMAIN d.tiers.items : \A f \in TierFields :
            Eq(TierField(e.tiers.items[i], f), TierField(d.tiers.items[i], f), loose)
  /\ d.transform_quantity.is = "obj" =>
       \A f \in {"divide_by", "round"} : Eq(e.transform_quantity[f], d.transform_quantity[f], loose)

LastCall(log) == log[Len(log)]
Outcome(status, physicalId) ==
  [id |-> Current.id, type |-> Current.type, physicalId |-> physicalId, status |-> status]

\* C8: when deploy finds an existing Price and a compared field has another
\* value than in the desired bag, the next call is the deactivation of the old
\* id; once that is answered the create call with the desired bag follows; its
\* answer is reported as created with the new id; no Price is ever deleted.
C8_ReplaceDeactivatesThenCreates ==
  /\ [][(Looked(TPrice) /\ Existing # Undef
           /\ ~SameFields(PriceView(remote[Existing].bag), Desired, TRUE)) =>
          /\ Len(calls') = Len(calls) + 1 /\ deployed' = deployed
          /\ LastCall(calls').api = "update" /\ LastCall(calls').id = Existing
          /\ LastCall(calls').bag.active = "false"]_vars
  /\ [][(op = "deploy" /\ Awaited /\ pc = "deactivate") =>
          IF resp.ok
          THEN /\ Len(calls') = Len(calls) + 1 /\ deployed' = deployed
               /\ LastCall(calls').api = "create" /\ LastCall(calls').type = TPrice
               /\ UserConfigurable(LastCall(calls').bag) = Desired
          ELSE calls' = calls]_vars
  /\ [][(op = "deploy" /\ Awaited /\ pc = "create" /\ resp.ok /\ Current.type = TPrice) =>
          /\ deployed' = Append(deployed, Outcome("created", resp.id))
          /\ \A k \in DOMAIN calls : calls[k].id # resp.id]_vars
  /\ [](/\ \A k \in DOMAIN calls : calls[k].api = "del" => calls[k].type # TPrice
        /\ \A p \in DOMAIN remote : remote[p].type = TPrice => ~remote[p].deleted)

\* a Price replaced: the old object is still there, inactive, and the entry is
\* reported as created under the id the create call answered
C8_Witness ==
  /\ Finished("deploy")
  /\ \E k, l \in DOMAIN calls, i \in DOMAIN deployed :
       /\ k < l /\ calls[k].entry = calls[l].entry
       /\ calls[k].api = "update" /\ calls[k].type = TPrice /\ calls[k].status = "ok"
       /\ calls[l].api = "create" /\ calls[l].status = "ok"
       /\ deployed[i] = [id |-> calls[l].lid, type |-> TPrice,
                         physicalId |-> calls[l].answer, status |-> "created"]
       /\ remote[calls[k].id].bag.active = "false" /\ ~remote[calls[k].id].deleted

DesiredHash == computePropertiesHash(Current.type, Current.properties)

\* the hash the state store holds for the running entry, Undef for none
StoredHash ==
  IF manifest.stackId \in DOMAIN state /\ Current.id \in DOMAIN state[manifest.stackId]
  THEN state[manifest.stackId][Current.id].propertiesHash ELSE Undef

CallsOf(lid, api) == Cardinality({k \in DOMAIN calls : calls[k].lid = lid /\ calls[k].api = api})

\* C10 as stated: a Product is reported unchanged, its update skipped, only
\* when the hash held in the state store for its logical id is the hash of
\* the desired bag.
C10_SkipOnlyOnStoredHash ==
  [][(Looked(TProduct) /\ Len(deployed') = Len(deployed) + 1
        /\ LastCall(deployed').status = "unchanged") => StoredHash = DesiredHash]_vars

\* C10 amended: a Product not found is created with one create call and
\* reported created; a Product found is updated with one update call and
\* reported updated, except that the update is skipped and the entry reported
\* unchanged exactly when the pricectl_properties_hash metadata of the remote
\* object found is the hash of the desired bag.
C10_SkipOnRemoteHash ==
  /\ [][Looked(TProduct) =>
          IF Existing = Undef
          THEN /\ Len(calls') = Len(calls) + 1 /\ deployed' = deployed
               /\ LastCall(calls').api = "create"
          ELSE IF remote[Existing].bag.metadata["pricectl_properties_hash"] = DesiredHash
          THEN /\ calls' = calls
               /\ deployed' = Append(deployed, Outcome("unchanged", Existing))
          ELSE /\ Len(calls') = Len(calls) + 1 /\ deployed' = deployed
               /\ LastCall(calls').api = "update" /\ LastCall(calls').id = Existing]_vars
  /\ [](op = "deploy" =>
          \A i \in DOMAIN deployed : deployed[i].type = TProduct =>
            LET lid == deployed[i].id IN
              /\ deployed[i].status = "created" => CallsOf(lid, "create") = 1 /\ CallsOf(lid, "update") = 0
              /\ deployed[i].status = "updated" => CallsOf(lid, "create") = 0 /\ CallsOf(lid, "update") = 1
              /\ deployed[i].status = "unchanged" => CallsOf(lid, "create") = 0 /\ CallsOf(lid, "update") = 0)

\* a Product reported unchanged by a deployer whose state store knows nothing of it
C10_Witness ==
  /\ Finished("deploy")
  /\ \E i \in DOMAIN deployed :
       /\ deployed[i].type = TProduct /\ deployed[i].status = "unchanged"
       /\ ~hasState
       /\ remote[deployed[i].physicalId].bag.metadata["pricectl_properties_hash"]
            = computePropertiesHash(TProduct, manifest.resources[Pos(deployed[i].id)].properties)
\* the error entry catch records for the running entry
Failure(message) == [id |-> Current.id, type |-> Current.type, error |-> message]

\* the calls made for an entry that write to the remote
Writes(lid) ==
  {k \in DOMAIN calls : calls[k].lid = lid /\ calls[k].api \in {"create", "update", "del", "deactivate"}}

\* C11: for a Coupon, deploy retrieves the remote coupon whose id is the logical
\* id; found, the entry is reported unchanged and nothing is written, whatever
\* the desired bag; not found (resource_missing), a create call with the logical
\* id as id follows and its answer is reported created; any other error of the
\* retrieval is recorded for the entry and no call follows.
C11_CouponByLogicalId ==
  /\ [][(op = "deploy" /\ Awaited /\ pc = "coupon") =>
          IF resp.ok
          THEN /\ deployed' = Append(deployed, Outcome("unchanged", resp.id))
               /\ calls' = calls /\ errors' = errors
          ELSE IF resp.code = ResourceMissing
          THEN /\ Len(calls') = Len(calls) + 1 /\ deployed' = deployed /\ errors' = errors
               /\ LastCall(calls').api = "create" /\ LastCall(calls').type = TCoupon
               /\ LastCall(calls').bag.id = Current.id
          ELSE /\ errors' = Append(errors, Failure(resp.code))
               /\ calls' = calls /\ deployed' = deployed /\ idx' = idx + 1]_vars
  /\ [][(op = "deploy" /\ Awaited /\ pc = "create" /\ resp.ok /\ Current.type = TCoupon) =>
          /\ deployed' = Append(deployed, Outcome("created", resp.id))
          /\ resp.id = Current.id]_vars
  /\ [](op = "deploy" =>
          /\ \A k \in DOMAIN calls :
               (calls[k].type = TCoupon /\ \A l \in DOMAIN calls : calls[l].lid = calls[k].lid => k <= l)
                 => calls[k].api = "retrieve" /\ calls[k].id = calls[k].lid
          /\ \A i \in DOMAIN deployed :
               (deployed[i].type = TCoupon /\ deployed[i].status = "unchanged")
                 => Writes(deployed[i].id) = {} /\ deployed[i].physicalId = deployed[i].id)

\* a Coupon reported unchanged although the remote coupon is not the desired one
C11_Witness ==
  /\ Finished("deploy")
  /\ \E i \in DOMAIN deployed :
       /\ deployed[i].type = TCoupon /\ deployed[i].status = "unchanged"
       /\ remote[deployed[i].physicalId].bag.percent_off
            # manifest.resources[Pos(deployed[i].id)].properties.percent_off
\* the fields of a call's bag that are set
Carried(bag) == {f \in DOMAIN bag : f # "metadata" /\ bag[f] # Undef}

\* C12 as stated: an update call deploy makes for an EntitlementFeature carries
\* the name and nothing else, one for a BillingMeter the display_name and
\* nothing else.
C12_UpdateCarriesNameOnly ==
  op = "deploy" =>
    \A k \in DOMAIN calls :
      /\ (calls[k].api = "update" /\ calls[k].type = TFeature) =>
           Carried(calls[k].bag) = {"name"} /\ calls[k].bag.metadata = NoMeta
      /\ (calls[k].api = "update" /\ calls[k].type = TMeter) =>
           Carried(calls[k].bag) = {"display_name"}

\* C12 amended: the remote object found for an EntitlementFeature
\* (BillingMeter) has the desired lookup_key (event_name); found, the update
\* call carries the name and the metadata with the identity tags for a
\* feature, the display_name alone for a meter, and its answer is reported
\* updated; not found, a create call with the bag follows and its answer is
\* reported created.
C12_FoundByKeyThenUpdate ==
  /\ [][(op = "deploy" /\ Awaited /\ pc = "list" /\ (resp.ok \/ resp.code = ResourceMissing)) =>
          /\ Len(calls') = Len(calls) + 1 /\ deployed' = deployed /\ errors' = errors
          /\ LastCall(calls').type = Current.type
          /\ IF Existing # Undef
             THEN /\ remote[Existing].type = Current.type
                  /\ IF Current.type = TFeature
                     THEN remote[Existing].bag.lookup_key = Current.properties.lookup_key
                     ELSE remote[Existing].bag.event_name = Current.properties.event_name
                  /\ LastCall(calls').api = "update" /\ LastCall(calls').id = Existing
                  /\ IF Current.type = TFeature
                     THEN /\ Carried(LastCall(calls').bag) = {"name"}
                          /\ LastCall(calls').bag.name = Current.properties.name
                          /\ LastCall(calls').bag.metadata
                               = [Current.properties.metadata EXCEPT
                                    !["pricectl_id"] = Current.id, !["pricectl_path"] = Current.path]
                     ELSE /\ Carried(LastCall(calls').bag) = {"display_name"}
                          /\ LastCall(calls').bag.display_name = Current.properties.display_name
             ELSE /\ LastCall(calls').api = "create"
                  /\ [LastCall(calls').bag EXCEPT !.metadata = Current.properties.metadata]
                       = Current.properties
                  /\ IF Current.type = TMeter THEN TRUE ELSE
                       LastCall(calls').bag.metadata
                         = [Current.properties.metadata EXCEPT
                              !["pricectl_id"] = Current.id, !["pricectl_path"] = Current.path]]_vars
  /\ [][(op = "deploy" /\ Awaited /\ pc \in {"update", "create"} /\ resp.ok
           /\ Current.type \in {TFeature, TMeter}) =>
          deployed' = Append(deployed,
                             Outcome(IF pc = "update" THEN "updated" ELSE "created", resp.id))]_vars

\* an EntitlementFeature found by its lookup_key and renamed
C12_Witness ==
  /\ Finished("deploy")
  /\ \E i \in DOMAIN deployed, k \in DOMAIN calls :
       /\ deployed[i].type = TFeature /\ deployed[i].status = "updated"
       /\ calls[k].lid = deployed[i].id /\ calls[k].api = "update" /\ calls[k].status = "ok"
       /\ remote[deployed[i].physicalId].bag.name = "API"
       /\ remote[deployed[i].physicalId].bag.lookup_key = "api-access"
\* C13: every create call for a Product or a Price and every update call that
\* writes a Product carries metadata whose pricectl_id is the entry's logical
\* id and whose pricectl_path is the entry's path, whatever the entry's own
\* metadata says for those keys.
C13_IdentityTagsOnEveryWrite ==
  \A k \in DOMAIN calls :
    (\/ calls[k].api = "create" /\ calls[k].type \in {TProduct, TPrice}
     \/ calls[k].api = "update" /\ calls[k].type = TProduct) =>
      /\ calls[k].bag.metadata["pricectl_id"] = Walk[calls[k].entry].id
      /\ calls[k].bag.metadata["pricectl_path"] = Walk[calls[k].entry].path

\* a Product whose own metadata says pricectl_id = Mine, written under its logical id
C13_Witness ==
  \E k \in DOMAIN calls :
    /\ calls[k].api \in {"create", "update"} /\ calls[k].type = TProduct /\ calls[k].status = "ok"
    /\ Walk[calls[k].entry].properties.metadata["pricectl_id"] = "Mine"
    /\ remote[calls[k].answer].bag.metadata["pricectl_id"] = "MyProduct"
\* the physical id the state store holds for the running entry, Undef for none
StoredId == IF hasState THEN statePhysicalId(state, manifest.stackId, Current.id) ELSE Undef

\* C14: for a Product or Price entry whose state entry holds a physical id the
\* lookup begins with a retrieve of that id; if the retrieve is refused with
\* resource_missing the tag search follows; if it fails otherwise the error is
\* recorded for the entry and no further call is made for it.
C14_StateFastPath ==
  /\ [][(Awaited /\ pc = "next" /\ idx <= Len(Walk) /\ Current.type \in {TProduct, TPrice}
           /\ StoredId # Undef) =>
          /\ Len(calls') = Len(calls) + 1
          /\ LastCall(calls').api = "retrieve" /\ LastCall(calls').id = StoredId]_vars
  /\ [][(Awaited /\ pc = "retrieve" /\ ~resp.ok) =>
          IF resp.code = ResourceMissing
          THEN /\ Len(calls') = Len(calls) + 1 /\ errors' = errors
               /\ LastCall(calls').api = "search" /\ LastCall(calls').id = Current.id
          ELSE /\ calls' = calls /\ idx' = idx + 1
               /\ errors' = Append(errors, Failure(resp.code))]_vars
  /\ [](\A k \in DOMAIN calls :
          (calls[k].api = "retrieve" /\ calls[k].type \in {TProduct, TPrice}
             /\ calls[k].answer = ApiError) =>
            \A l \in DOMAIN calls : calls[l].lid = calls[k].lid => l <= k)

\* the state entry was stale: the retrieve was refused, the search answered
C14_Witness ==
  \E k, l \in DOMAIN calls :
    /\ k < l /\ calls[k].lid = calls[l].lid
    /\ calls[k].api = "retrieve" /\ calls[k].answer = ResourceMissing
    /\ calls[l].api = "search" /\ calls[l].status = "ok"
\* what stands for undefined where a ResourceState is expected
NoEntry ==
  [logicalId |-> Undef, physicalId |-> Undef, type |-> Undef, path |-> Undef,
   lastDeployedAt |-> 0, propertiesHash |-> Undef]

\* getResource(stackId, logicalId)
StateEntry(st, lid) ==
  IF manifest.stackId \in DOMAIN st /\ lid \in DOMAIN st[manifest.stackId]
  THEN st[manifest.stackId][lid] ELSE NoEntry

\* C15: with a state store, while deploy() runs and after it returns every
\* entry in deployed has a state entry under (stackId, logical id) with the
\* physical id reported for it, its kind, its path and the hash of its desired
\* bag; the state entries of all other ids, those of the entries in errors
\* among them, are never touched by the run.
C15_StateFollowsDeployed ==
  /\ []((op = "deploy" /\ hasState) =>
          \A i \in DOMAIN deployed :
            LET r == manifest.resources[Pos(deployed[i].id)]
                e == StateEntry(state, deployed[i].id) IN
              /\ e # NoEntry
              /\ e.logicalId = r.id /\ e.physicalId = deployed[i].physicalId
              /\ e.type = r.type /\ e.path = r.path
              /\ e.propertiesHash = computePropertiesHash(r.type, r.properties))
  /\ [][(op = "deploy" /\ runs' = runs) =>
          \A i \in DOMAIN manifest.resources :
            LET lid == manifest.resources[i].id IN
              StateEntry(state', lid) # StateEntry(state, lid) =>
                /\ deployed' = Append(deployed, deployed'[Len(deployed')])
                /\ deployed'[Len(deployed')].id = lid
                /\ Count(errors', lid) = 0]_vars

\* deploy() returned: one entry failed and keeps the state entry of an earlier
\* run, another was deployed and has the state entry of this run
C15_Witness ==
  /\ Finished("deploy") /\ hasState
  /\ \E i \in DOMAIN errors, j \in DOMAIN deployed :
       /\ StateEntry(state, errors[i].id) # NoEntry
       /\ StateEntry(state, errors[i].id).lastDeployedAt < runs
       /\ StateEntry(state, deployed[j].id).lastDeployedAt = runs
\* C16: with a state store, while destroy() runs and after it returns there is
\* no state entry for any entry processed without error, also when nothing was
\* found to destroy; the state entries of the entries in errors are never
\* touched by the run.
C16_StateForgetsDestroyed ==
  /\ []((op = "destroy" /\ hasState) =>
          \A j \in DOMAIN Walk :
            (j < idx /\ Count(errors, Walk[j].id) = 0) => StateEntry(state, Walk[j].id) = NoEntry)
  /\ [][(op = "destroy" /\ runs' = runs) =>
          \A i \in DOMAIN manifest.resources :
            LET lid == manifest.resources[i].id IN
              StateEntry(state', lid) # StateEntry(state, lid) =>
                /\ Current.id = lid /\ idx' = idx + 1
                /\ errors' = errors /\ Count(errors, lid) = 0]_vars

\* destroy() returned: an entry the state store tracked had no remote object
\* left, and its state entry is gone
C16_Witness ==
  /\ Finished("destroy") /\ hasState
  /\ \E k \in DOMAIN calls :
       /\ calls[k].api = "retrieve" /\ calls[k].type = TProduct
       /\ FoundNothing(calls[k].lid)
       /\ Outcomes(calls[k].lid) = 0
       /\ StateEntry(state, calls[k].lid) = NoEntry
\* C17: destroy() deletes Products and Coupons only (status deleted); the only
\* write it makes on a Price, an EntitlementFeature or a BillingMeter is the
\* deactivation (status deactivated); it creates nothing.
C17_DestroyDeletesOrDeactivates ==
  op = "destroy" =>
    /\ \A k \in DOMAIN calls :
         /\ calls[k].api # "create"
         /\ calls[k].api = "del" <=> (k \in Writes(calls[k].lid) /\ calls[k].type \in {TProduct, TCoupon})
         /\ (k \in Writes(calls[k].lid) /\ calls[k].type \in {TPrice, TFeature}) =>
              /\ calls[k].api = "update"
              /\ calls[k].bag = [(IF calls[k].type = TPrice THEN EmptyPriceBag ELSE EmptyFeatureBag)
                                  EXCEPT !.active = "false"]
         /\ (k \in Writes(calls[k].lid) /\ calls[k].type = TMeter) => calls[k].api = "deactivate"
    /\ \A i \in DOMAIN destroyed :
         destroyed[i].status =
           IF destroyed[i].type \in {TProduct, TCoupon} THEN "deleted" ELSE "deactivated"
    /\ \A p \in DOMAIN remote : remote[p].deleted => remote[p].type \in {TProduct, TCoupon}

\* destroy() returned: the EntitlementFeature deactivated, the Coupon deleted
C17_Witness ==
  /\ Finished("destroy")
  /\ \E i, j \in DOMAIN destroyed :
       /\ destroyed[i].type = TFeature /\ destroyed[i].status = "deactivated"
       /\ destroyed[j].type = TCoupon /\ destroyed[j].status = "deleted"
       /\ remote[destroyed[j].id].deleted
       /\ \E p \in DOMAIN remote :
            remote[p].type = TFeature /\ remote[p].bag.active = "false" /\ ~remote[p].deleted
\* the lookup destroy() made for the running entry has returned with no remote object
NothingToDestroy ==
  /\ op = "destroy" /\ pc \in {"search", "coupon", "list"} /\ Awaited
  /\ FoundNothing(Current.id)

\* C18: when the lookup destroy() makes for an entry finds no remote object (an
\* empty search or list, or a Coupon retrieval answered resource_missing), the
\* run moves on to the next entry with no call issued and nothing added to
\* destroyed or errors; the entry never gets a write call or an outcome.
C18_NothingFoundNothingDone ==
  /\ [][(NothingToDestroy /\ pc' # pc) =>
          /\ calls' = calls /\ inflight' = inflight
          /\ destroyed' = destroyed /\ errors' = errors
          /\ idx' = idx + 1]_vars
  /\ [](op = "destroy" =>
          \A i \in DOMAIN manifest.resources :
            LET lid == manifest.resources[i].id IN
              FoundNothing(lid) => Writes(lid) = {} /\ Outcomes(lid) = 0)

\* destroy() returned: a Coupon whose retrieval was answered resource_missing
\* and an entry whose search or list came back empty, neither in destroyed or errors
C18_Witness ==
  /\ Finished("destroy")
  /\ \E k, l \in DOMAIN calls :
       /\ calls[k].api = "retrieve" /\ calls[k].type = TCoupon
       /\ calls[k].answer = ResourceMissing
       /\ calls[l].api \in {"search", "list"} /\ calls[l].status = "ok" /\ calls[l].answer = Undef
       /\ FoundNothing(calls[k].lid) /\ FoundNothing(calls[l].lid)
       /\ Writes(calls[k].lid) = {} /\ Writes(calls[l].lid) = {}
       /\ Outcomes(calls[k].lid) = 0 /\ Outcomes(calls[l].lid) = 0
\* ------------------------------------------- StateManager and its file
STATE_VERSION == 1

\* text is a sequence of tokens; a write may stop between any two of them.
\* A token of kind k: punctuation, a key with a string or a number, a resource
Tok(k) == [k |-> k, s |-> "", n |-> 0, r |-> NoEntry]
TokS(k, s) == [Tok(k) EXCEPT !.s = s]
TokN(k, n) == [Tok(k) EXCEPT !.n = n]
TokR(k, r) == [Tok(k) EXCEPT !.r = r]

\* the values JSON.parse returns here: null, a number, or an object with a
\* version and with stacks that is null, an array or an object
JNull == [json |-> "null", version |-> 0, stacks |-> [kind |-> "null", map |-> EmptyMap]]
JNumber == [json |-> "number", version |-> 0, stacks |-> [kind |-> "null", map |-> EmptyMap]]
JDoc(version, kind, map) ==
  [json |-> "object", version |-> version, stacks |-> [kind |-> kind, map |-> map]]
SyntaxError == [json |-> "SyntaxError", version |-> 0, stacks |-> [kind |-> "null", map |-> EmptyMap]]

\* the keys of an object, in the order JSON.stringify walks them
RECURSIVE Keys(_)
Keys(S) == IF S = {} THEN << >> ELSE LET k == CHOOSE x \in S : TRUE IN <<k>> \o Keys(S \ {k})

RECURSIVE Concat(_)
Concat(ss) == IF ss = << >> THEN << >> ELSE Head(ss) \o Concat(Tail(ss))

\* "<stackId>": { "resources": { "<logicalId>": {...}, ... } }
StackText(stackId, resources) ==
  <<TokS("stack{", stackId)>>
    \o [i \in 1..Len(Keys(DOMAIN resources)) |-> TokR("resource", resources[Keys(DOMAIN resources)[i]])]
    \o <<Tok("}")>>

\* JSON.stringify(value, null, 2)
stringify(value) ==
  IF value.json = "null" THEN <<Tok("null")>>
  ELSE IF value.json = "number" THEN <<Tok("number")>>
  ELSE <<Tok("{"), TokN("version", value.version)>>
         \o (IF value.stacks.kind = "null" THEN <<TokS("stacks", "null")>>
             ELSE IF value.stacks.kind = "array" THEN <<TokS("stacks", "[]")>>
             ELSE <<Tok("stacks{")>>
                    \o Concat([i \in 1..Len(Keys(DOMAIN value.stacks.map)) |->
                                 StackText(Keys(DOMAIN value.stacks.map)[i],
                                           value.stacks.map[Keys(DOMAIN value.stacks.map)[i]])])
                    \o <<Tok("}")>>)
         \o <<Tok("}")>>

\* JSON.stringify(this.state, null, 2) + '\n'
Serialize(st) == stringify(JDoc(STATE_VERSION, "object", st)) \o <<Tok("\n")>>

\* the members of "stacks": { ... }, read token by token; cur is the stack
\* whose resources are being read, Undef between two stacks
RECURSIVE ParseStacks(_, _, _)
ParseStacks(text, cur, acc) ==
  IF text = << >>
  THEN [ok |-> cur = Undef, map |-> acc]
  ELSE LET h == Head(text) IN
    IF h.k = "stack{" /\ cur = Undef
    THEN ParseStacks(Tail(text), h.s,
                     [x \in DOMAIN acc \cup {h.s} |-> IF x = h.s THEN EmptyMap ELSE acc[x]])
    ELSE IF h.k = "resource" /\ cur # Undef
    THEN ParseStacks(Tail(text), cur, setResource(acc, cur, h.r))
    ELSE IF h.k = "}" /\ cur # Undef
    THEN ParseStacks(Tail(text), Undef, acc)
    ELSE [ok |-> FALSE, map |-> acc]

\* trailing white space is no part of the document
RECURSIVE Trim(_)
Trim(text) ==
  IF text # << >> /\ text[Len(text)].k = "\n" THEN Trim(SubSeq(text, 1, Len(text) - 1)) ELSE text

\* JSON.parse(raw): the value, or SyntaxError where it throws
JSONparse(raw) ==
  LET t == Trim(raw)
      n == Len(t)
  IN IF n = 1 /\ t[1].k = "null" THEN JNull
     ELSE IF n = 1 /\ t[1].k = "number" THEN JNumber
     ELSE IF n < 4 THEN SyntaxError
     ELSE IF t[1].k # "{" \/ t[2].k # "version" \/ t[n].k # "}" THEN SyntaxError
     ELSE IF n = 4 /\ t[3].k = "stacks"
     THEN JDoc(t[2].n, IF t[3].s = "null" THEN "null" ELSE "array", EmptyMap)
     ELSE IF n >= 5 /\ t[3].k = "stacks{" /\ t[n - 1].k = "}"
     THEN LET members == ParseStacks(SubSeq(t, 4, n - 2), Undef, EmptyMap)
          IN IF members.ok THEN JDoc(t[2].n, "object", members.map) ELSE SyntaxError
     ELSE SyntaxError

\* createEmpty(): { version: STATE_VERSION, stacks: {} }
createEmpty == EmptyMap

\* the try block of load(): the stacks it returns, or threw where a statement
\* of it throws (readFileSync, JSON.parse, or `parsed.version` of null)
tryLoad(file) ==
  IF ~file.exists THEN [threw |-> FALSE, stacks |-> createEmpty]
  ELSE IF ~file.readable THEN [threw |-> TRUE, stacks |-> createEmpty]
  ELSE LET parsed == JSONparse(file.text) IN
    IF parsed.json \in {"SyntaxError", "null"} THEN [threw |-> TRUE, stacks |-> createEmpty]
    ELSE IF /\ parsed.json = "object"
            /\ parsed.version = STATE_VERSION
            /\ parsed.stacks.kind = "object"
         THEN [threw |-> FALSE, stacks |-> parsed.stacks.map]
         ELSE [threw |-> FALSE, stacks |-> createEmpty]

\* mutant of load: no catch around the body
load_NoCatch(file) == tryLoad(file)

\* load(): try { ... } catch { } return this.createEmpty()
load(file) ==
  IF tryLoad(file).threw THEN [threw |-> FALSE, stacks |-> createEmpty] ELSE tryLoad(file)

\* getResource(stackId, logicalId)
getResource(st, stackId, logicalId) ==
  IF stackId \in DOMAIN st /\ logicalId \in DOMAIN st[stackId]
  THEN st[stackId][logicalId] ELSE NoEntry

\* fs.renameSync(from, to)
Rename(d, from, to) ==
  IF from = to THEN d
  ELSE [p \in DOMAIN d |-> IF p = to THEN d[from] ELSE IF p = from THEN Missing ELSE d[p]]

\* a regular file holding text
File(text) == [exists |-> TRUE, readable |-> TRUE, text |-> text]

\* the ResourceState deploy() stores for a manifest entry
ResourceState(r, physicalId) ==
  [logicalId |-> r.id, physicalId |-> physicalId, type |-> r.type,
   path |-> r.path, lastDeployedAt |-> 0,
   propertiesHash |-> computePropertiesHash(r.type, r.properties)]

\* the resources the caller stores
StoreEntries ==
  { ResourceState(Widget, PhysNames[1]), ResourceState(Widget, PhysNames[2]),
    ResourceState(OneTime, PhysNames[2]) }

StoreStacks == {StackId, "OtherStack"}
StoreIds == {e.logicalId : e \in StoreEntries} \cup {"NonExistent"}

\* what the constructor may find at filePath
StoreFiles ==
  { Missing,
    [File(Serialize(StaleState)) EXCEPT !.readable = FALSE],
    File(<<Tok("not valid json!!!")>>),
    File(SubSeq(Serialize(StaleState), 1, 4)),
    File(stringify(JNull)),
    File(stringify(JNumber)),
    File(stringify(JDoc(999, "object", EmptyMap))),
    File(stringify(JDoc(999, "object", StaleState))),
    File(stringify(JDoc(STATE_VERSION, "null", EmptyMap))),
    File(stringify(JDoc(STATE_VERSION, "array", EmptyMap))),
    File(stringify(JDoc(STATE_VERSION, "object", StaleState))),
    File(Serialize(StaleState)) }

\* a process starts in a directory holding one of the files above
StoreInit ==
  /\ disk \in {[NoFiles EXCEPT ![filePath] = f] : f \in StoreFiles}
  /\ spc = "none"
  /\ procs = [p \in Procs |-> NotStarted]
  /\ lastRename = "none"
  /\ last = NoCall
  /\ input = NoValue
  /\ output = NoValue
  /\ nodes = << >>
  /\ hasState = TRUE /\ unsetAs = Undef
  /\ remote = EmptyMap /\ nextPhys = 0 /\ state = EmptyMap
  /\ fails = 0
  /\ logicalToPhysicalId = EmptyMap
  /\ runs = 0
  /\ op = "none"
  /\ manifest = NoManifest
  /\ pc = "idle"
  /\ idx = 1
  /\ inflight = << >>
  /\ resp = NoResp
  /\ calls = << >>
  /\ deployed = << >>
  /\ destroyed = << >>
  /\ errors = << >>

\* what the StateManager's operations leave alone
deployer == <<hasState, unsetAs, remote, nextPhys, fails, logicalToPhysicalId, runs, op,
              manifest, pc, idx, inflight, resp, calls, deployed, destroyed, errors,
              procs, lastRename, last, input, output, nodes>>

\* new StateManager(stateDir)
Construct ==
  /\ spc = "none"
  /\ IF load(disk[filePath]).threw
     THEN spc' = "failed" /\ state' = state
     ELSE spc' = "ready" /\ state' = load(disk[filePath]).stacks
  /\ UNCHANGED <<deployer, disk>>

\* setResource(stackId, resource)
SetResource ==
  /\ spc = "ready"
  /\ \E r \in StoreEntries : state' = setResource(state, StackId, r)
  /\ UNCHANGED <<deployer, disk, spc>>

\* removeResource(stackId, logicalId)
RemoveResource ==
  /\ spc = "ready"
  /\ \E l \in StoreIds : state' = removeResource(state, StackId, l)
  /\ UNCHANGED <<deployer, disk, spc>>

\* save(), writeFileSync(tmpPath, ...): the file is opened, created or truncated
SaveOpen ==
  /\ spc = "ready"
  /\ disk' = [disk EXCEPT ![tmpPath] = File(<< >>)]
  /\ spc' = "writing"
  /\ UNCHANGED <<deployer, state>>

\* save(), writeFileSync(tmpPath, ...): the next part of the text is written
SaveWrite ==
  /\ spc = "writing"
  /\ Len(disk[tmpPath].text) < Len(Serialize(state))
  /\ disk' = [disk EXCEPT ![tmpPath].text =
                Append(@, Serialize(state)[Len(disk[tmpPath].text) + 1])]
  /\ UNCHANGED <<deployer, state, spc>>

\* save(), writeFileSync(tmpPath, ...): a write fails and save() throws
SaveThrow ==
  /\ spc = "writing"
  /\ Len(disk[tmpPath].text) < Len(Serialize(state))
  /\ spc' = "ready"
  /\ UNCHANGED <<deployer, state, disk>>

\* save(), fs.renameSync(tmpPath, this.filePath), and save() returns
SaveRename ==
  /\ spc = "writing"
  /\ Len(disk[tmpPath].text) = Len(Serialize(state))
  /\ disk' = Rename(disk, tmpPath, filePath)
  /\ spc' = "ready"
  /\ UNCHANGED <<deployer, state>>

\* the process dies: what it held in memory is gone, the files stay
Crash ==
  /\ spc \in {"ready", "writing"}
  /\ spc' = "none"
  /\ state' = EmptyMap
  /\ UNCHANGED <<deployer, disk>>

StoreNext ==
  \/ Construct
  \/ SetResource
  \/ RemoveResource
  \/ SaveOpen
  \/ SaveWrite
  \/ SaveThrow
  \/ SaveRename
  \/ Crash

StoreSpec == StoreInit /\ [][StoreNext]_vars

\* the file the constructor finds is one of those the claim names: missing,
\* unreadable, not parseable, or of a version other than STATE_VERSION
Unusable(file) ==
  \/ ~file.exists
  \/ ~file.readable
  \/ JSONparse(file.text).json = "SyntaxError"
  \/ JSONparse(file.text).json # "object"
  \/ JSONparse(file.text).version # STATE_VERSION

C20_SaveIsAtomic ==
  [][\/ disk'[filePath] = disk[filePath]
     \/ /\ spc = "writing" /\ spc' = "ready"
        /\ disk'[filePath] = File(Serialize(state))
        /\ load(disk'[filePath]).stacks = state]_vars

\* the process died in the middle of writeFileSync: the temp file holds part
\* of the new text, the state file the whole text an earlier save() put there
C20_Witness ==
  /\ spc = "none"
  /\ disk[tmpPath].exists
  /\ JSONparse(disk[tmpPath].text) = SyntaxError
  /\ \E e \in StoreEntries :
       /\ e.physicalId = PhysNames[2]
       /\ disk[filePath] = File(Serialize(setResource(EmptyMap, StackId, e)))
       /\ \E i \in DOMAIN disk[tmpPath].text :
            disk[tmpPath].text[i].k = "resource" /\ disk[tmpPath].text[i].r # e
\* ------------------------------------- two processes on one state file
MaxEdits == 1

\* what the race leaves alone
single == <<hasState, unsetAs, remote, nextPhys, fails, state, logicalToPhysicalId, runs, op,
            manifest, pc, idx, inflight, resp, calls, deployed, destroyed, errors, spc, last, input, output, nodes>>

\* write(fd, token) at offset off: the text is overwritten from there on, and
\* extended (with NUL where the file is shorter than the offset)
WriteAt(text, off, tok) ==
  [i \in 1..(IF Len(text) > off + 1 THEN Len(text) ELSE off + 1) |->
     IF i = off + 1 THEN tok ELSE IF i <= Len(text) THEN text[i] ELSE Tok("NUL")]

\* both processes start in a directory with no state file or with a valid one
RaceInit ==
  /\ disk \in {NoFiles, [NoFiles EXCEPT ![filePath] = File(Serialize(StaleState))]}
  /\ spc = "none"
  /\ procs = [p \in Procs |-> NotStarted]
  /\ lastRename = "none"
  /\ last = NoCall
  /\ input = NoValue
  /\ output = NoValue
  /\ nodes = << >>
  /\ hasState = TRUE /\ unsetAs = Undef
  /\ remote = EmptyMap /\ nextPhys = 0 /\ state = EmptyMap
  /\ fails = 0
  /\ logicalToPhysicalId = EmptyMap
  /\ runs = 0
  /\ op = "none"
  /\ manifest = NoManifest
  /\ pc = "idle"
  /\ idx = 1
  /\ inflight = << >>
  /\ resp = NoResp
  /\ calls = << >>
  /\ deployed = << >>
  /\ destroyed = << >>
  /\ errors = << >>

\* new StateManager(stateDir) in process p
PLoad(p) ==
  /\ procs[p].pc = "start"
  /\ procs' = [procs EXCEPT ![p].pc = "ready", ![p].state = load(disk[filePath]).stacks]
  /\ UNCHANGED <<single, disk, lastRename>>

\* setResource(stackId, resource) in process p
PSetResource(p) ==
  /\ procs[p].pc = "ready" /\ procs[p].edits < MaxEdits
  /\ \E r \in StoreEntries :
       procs' = [procs EXCEPT ![p].state = setResource(@, StackId, r), ![p].edits = @ + 1]
  /\ UNCHANGED <<single, disk, lastRename>>

\* removeResource(stackId, logicalId) in process p
PRemoveResource(p) ==
  /\ procs[p].pc = "ready" /\ procs[p].edits < MaxEdits
  /\ \E l \in StoreIds :
       procs' = [procs EXCEPT ![p].state = removeResource(@, StackId, l), ![p].edits = @ + 1]
  /\ UNCHANGED <<single, disk, lastRename>>

\* save() in process p, writeFileSync(tmpPath, ...): open with flag 'w', which
\* creates the file or truncates the one that is there
POpen(p) ==
  /\ procs[p].pc = "ready"
  /\ disk' = [disk EXCEPT ![tmpPath] = File(<< >>)]
  /\ procs' = [procs EXCEPT ![p].pc = "writing", ![p].fd = tmpPath, ![p].off = 0]
  /\ UNCHANGED <<single, lastRename>>

\* save() in process p, writeFileSync: the next part of the text goes to the
\* open file at the descriptor's own offset
PWrite(p) ==
  /\ procs[p].pc = "writing"
  /\ procs[p].off < Len(Serialize(procs[p].state))
  /\ disk' = [disk EXCEPT ![procs[p].fd].text =
                WriteAt(@, procs[p].off, Serialize(procs[p].state)[procs[p].off + 1])]
  /\ procs' = [procs EXCEPT ![p].off = @ + 1]
  /\ UNCHANGED <<single, lastRename>>

\* save() in process p, fs.renameSync(tmpPath, this.filePath): the file moves,
\* and with it every descriptor open on it; ENOENT when another process has
\* moved it already
PRename(p) ==
  /\ procs[p].pc = "writing"
  /\ procs[p].off = Len(Serialize(procs[p].state))
  /\ IF disk[tmpPath].exists
     THEN /\ disk' = Rename(disk, tmpPath, filePath)
          /\ procs' = [q \in Procs |->
                         [procs[q] EXCEPT !.pc = IF q = p THEN "done" ELSE @,
                                          !.fd = IF @ = tmpPath THEN filePath ELSE @]]
          /\ lastRename' = p
     ELSE /\ procs' = [procs EXCEPT ![p].pc = "threw"]
          /\ UNCHANGED <<disk, lastRename>>
  /\ UNCHANGED single

RaceNext ==
  \/ \E p \in Procs : PLoad(p)
  \/ \E p \in Procs : PSetResource(p)
  \/ \E p \in Procs : PRemoveResource(p)
  \/ \E p \in Procs : POpen(p)
  \/ \E p \in Procs : PWrite(p)
  \/ \E p \in Procs : PRename(p)

RaceSpec == RaceInit /\ [][RaceNext]_vars

\* C21: once both processes are through save(), the state file is the whole
\* serialized state of the process whose rename came last.
C21_LastWriterWins ==
  ((\A p \in Procs : procs[p].pc \in {"done", "threw"}) /\ lastRename # "none") =>
    disk[filePath] = File(Serialize(procs[lastRename].state))
\* ------------------------------------------ the StateManager's map calls
\* keys every object literal answers to without holding them: a lookup
\* `stacks[key]` finds the member of Object.prototype
ObjectPrototype == {"constructor", "__proto__"}

CallStacks == StoreStacks \cup {"constructor"}

\* `this.state.stacks[stackId]` is truthy
Truthy(st, stackId) == stackId \in DOMAIN st \/ stackId \in ObjectPrototype

\* `this.state.stacks[stackId].resources` is undefined, and using it throws TypeError
NoResources(st, stackId) == stackId \notin DOMAIN st /\ stackId \in ObjectPrototype

\* removeStack(stackId): delete this.state.stacks[stackId]
removeStack(st, stackId) == [s \in DOMAIN st \ {stackId} |-> st[s]]

\* what the calls leave alone
others == <<hasState, unsetAs, remote, nextPhys, fails, logicalToPhysicalId, runs, op,
            manifest, pc, idx, inflight, resp, calls, deployed, destroyed, errors,
            disk, spc, procs, lastRename, input, output, nodes>>

\* a store constructed where there is no state file
CallInit ==
  /\ disk = NoFiles
  /\ spc = "ready"
  /\ procs = [p \in Procs |-> NotStarted]
  /\ lastRename = "none"
  /\ last = NoCall
  /\ input = NoValue
  /\ output = NoValue
  /\ nodes = << >>
  /\ hasState = TRUE /\ unsetAs = Undef
  /\ remote = EmptyMap /\ nextPhys = 0 /\ state = load(disk[filePath]).stacks
  /\ fails = 0
  /\ logicalToPhysicalId = EmptyMap
  /\ runs = 0
  /\ op = "none"
  /\ manifest = NoManifest
  /\ pc = "idle"
  /\ idx = 1
  /\ inflight = << >>
  /\ resp = NoResp
  /\ calls = << >>
  /\ deployed = << >>
  /\ destroyed = << >>
  /\ errors = << >>

\* setResource(stackId, resource)
CallSetResource ==
  \E s \in CallStacks, r \in StoreEntries :
    /\ state' = IF NoResources(state, s) THEN state ELSE setResource(state, s, r)
    /\ last' = [call |-> "setResource", stackId |-> s, logicalId |-> r.logicalId,
                threw |-> NoResources(state, s)]
    /\ UNCHANGED others

\* removeResource(stackId, logicalId)
CallRemoveResource ==
  \E s \in CallStacks, l \in StoreIds :
    /\ state' = IF Truthy(state, s) /\ ~NoResources(state, s)
                THEN removeResource(state, s, l) ELSE state
    /\ last' = [call |-> "removeResource", stackId |-> s, logicalId |-> l,
                threw |-> NoResources(state, s)]
    /\ UNCHANGED others

\* removeStack(stackId)
CallRemoveStack ==
  \E s \in CallStacks :
    /\ state' = removeStack(state, s)
    /\ last' = [call |-> "removeStack", stackId |-> s, logicalId |-> "", threw |-> FALSE]
    /\ UNCHANGED others

CallNext ==
  \/ CallSetResource
  \/ CallRemoveResource
  \/ CallRemoveStack

CallSpec == CallInit /\ [][CallNext]_vars

\* getStack(stackId) returns undefined
NoStack(st, stackId) == ~Truthy(st, stackId)

\* C22: on a store that started empty no stack entry ever has an empty
\* resource map; removeResource never raises, takes the stack entry away with
\* its last resource, and changes nothing for an unknown stack or logical id.
C22_NoEmptyStack ==
  /\ [](\A s \in DOMAIN state : DOMAIN state[s] # {})
  /\ [][last'.call = "removeResource" =>
          LET s == last'.stackId
              l == last'.logicalId
          IN /\ ~last'.threw
             /\ (s \notin DOMAIN state \/ l \notin DOMAIN state[s]) => state' = state
             /\ (s \in DOMAIN state /\ DOMAIN state[s] = {l}) => NoStack(state', s)]_vars
\* ------------------------------- computePropertiesHash on any property bag
\* a property bag as the program holds it: a string, a number, a boolean or
\* null (s is its text, character by character), an array (items in order) or
\* an object (items in insertion order, each under its key k)
Str(s) == [t |-> "str", s |-> s, items |-> << >>]
Num(s) == [t |-> "num", s |-> s, items |-> << >>]
Lit(s) == [t |-> "lit", s |-> s, items |-> << >>]
Arr(vs) == [t |-> "arr", s |-> << >>, items |-> [i \in DOMAIN vs |-> [k |-> << >>, v |-> vs[i]]]]
Obj(items) == [t |-> "obj", s |-> << >>, items |-> items]

\* the characters of the texts, in the order of their code units
Alphabet == <<"\"", ",", "1", ":", "[", "\\", "]", "a", "b", "e", "l", "n", "r", "t", "u", "{", "}">>
Code(c) == CHOOSE i \in DOMAIN Alphabet : Alphabet[i] = c

\* a < b as Array.prototype.sort() orders two strings
RECURSIVE Before(_, _)
Before(a, b) ==
  IF b = << >> THEN FALSE
  ELSE IF a = << >> THEN TRUE
  ELSE IF Head(a) # Head(b) THEN Code(Head(a)) < Code(Head(b))
  ELSE Before(Tail(a), Tail(b))

\* mutant of Sorted: the keys stay in insertion order
Sorted_AsInserted(items) == items

\* Object.keys(obj).sort(), and the members put into result in that order
RECURSIVE Sorted(_)
Sorted(items) ==
  IF items = << >> THEN << >>
  ELSE LET i == CHOOSE i \in DOMAIN items :
                  \A j \in DOMAIN items : j = i \/ Before(items[i].k, items[j].k) \/ items[j].k = items[i].k
       IN <<items[i]>> \o Sorted([j \in 1..(Len(items) - 1) |-> IF j < i THEN items[j] ELSE items[j + 1]])

\* canonicalizeProperties(value)
RECURSIVE canonicalize(_)
canonicalize(value) ==
  IF value.t = "arr"
  THEN [value EXCEPT !.items = [i \in DOMAIN value.items |->
                                  [k |-> << >>, v |-> canonicalize(value.items[i].v)]]]
  ELSE IF value.t = "obj"
  THEN [value EXCEPT !.items =
          Sorted([i \in DOMAIN value.items |->
                    [k |-> value.items[i].k, v |-> canonicalize(value.items[i].v)]])]
  ELSE value

\* JSON.stringify of a string: quotes around it, `"` and `\` escaped
RECURSIVE Quoted(_)
Quoted(s) ==
  IF s = << >> THEN << >>
  ELSE (IF Head(s) \in {"\"", "\\"} THEN <<"\\", Head(s)>> ELSE <<Head(s)>>) \o Quoted(Tail(s))

\* JSON.stringify(value)
RECURSIVE JSONstringify(_)
RECURSIVE Members(_, _)
Members(items, object) ==
  IF items = << >> THEN << >>
  ELSE (IF object THEN <<"\"">> \o Quoted(items[1].k) \o <<"\"", ":">> ELSE << >>)
       \o JSONstringify(items[1].v)
       \o (IF Len(items) > 1 THEN <<",">> ELSE << >>)
       \o Members(Tail(items), object)
JSONstringify(value) ==
  IF value.t = "str" THEN <<"\"">> \o Quoted(value.s) \o <<"\"">>
  ELSE IF value.t \in {"num", "lit"} THEN value.s
  ELSE IF value.t = "arr" THEN <<"[">> \o Members(value.items, FALSE) \o <<"]">>
  ELSE <<"{">> \o Members(value.items, TRUE) \o <<"}">>

\* crypto.createHash('sha256').update(json).digest('hex').slice(0, 16), taken
\* as collision free: the digest stands for the text it was made from
digest(json) == json

\* StateManager.computePropertiesHash(properties) for a bag of any shape
PropertiesHash(properties) == digest(JSONstringify(canonicalize(properties)))

\* the bags the hash is taken of: objects of one or two keys whose values are
\* leaves, arrays of leaves or objects of leaves, in every insertion order
BagKeys == {<<"b">>, <<"a", "b">>}
Leaves == {Str(<<"1">>), Num(<<"1">>), Str(<<"1", "\"", ",">>), Lit(<<"n", "u", "l", "l">>)}
Leaves2 == {Str(<<"1">>), Num(<<"1">>)}
Objects(values) ==
  {Obj(<<[k |-> k, v |-> v]>>) : k \in BagKeys, v \in values}
    \cup UNION {{Obj(<<[k |-> k1, v |-> v1], [k |-> k2, v |-> v2]>>) :
                   k2 \in BagKeys \ {k1}, v1 \in values, v2 \in values} : k1 \in BagKeys}
Inner == Leaves \cup {Arr(<<x, y>>) : x \in Leaves2, y \in Leaves2} \cup Objects(Leaves2)
Bags == Objects(Inner)

\* what computePropertiesHash leaves alone
pureOthers == <<hasState, unsetAs, remote, nextPhys, fails, state, logicalToPhysicalId, runs, op,
                manifest, pc, idx, inflight, resp, calls, deployed, destroyed, errors,
                disk, spc, procs, lastRename, last, nodes>>

HashInit ==
  /\ input \in Bags
  /\ output = NoValue
  /\ nodes = << >>
  /\ disk = NoFiles
  /\ spc = "none"
  /\ procs = [p \in Procs |-> NotStarted]
  /\ lastRename = "none"
  /\ last = NoCall
  /\ hasState = TRUE /\ unsetAs = Undef
  /\ remote = EmptyMap /\ nextPhys = 0 /\ state = EmptyMap
  /\ fails = 0
  /\ logicalToPhysicalId = EmptyMap
  /\ runs = 0
  /\ op = "none"
  /\ manifest = NoManifest
  /\ pc = "idle"
  /\ idx = 1
  /\ inflight = << >>
  /\ resp = NoResp
  /\ calls = << >>
  /\ deployed = << >>
  /\ destroyed = << >>
  /\ errors = << >>

\* StateManager.computePropertiesHash(input)
ComputeHash ==
  /\ output = NoValue
  /\ output' = Str(PropertiesHash(input))
  /\ UNCHANGED <<pureOthers, input>>

HashNext == ComputeHash

HashSpec == HashInit /\ [][HashNext]_vars

\* two bags are equal up to the order of object keys at every depth; the
\* order of array elements counts
RECURSIVE SameBag(_, _)
SameBag(a, b) ==
  /\ a.t = b.t /\ a.s = b.s /\ Len(a.items) = Len(b.items)
  /\ IF a.t = "obj"
     THEN \A i \in DOMAIN a.items : \E j \in DOMAIN b.items :
            a.items[i].k = b.items[j].k /\ SameBag(a.items[i].v, b.items[j].v)
     ELSE \A i \in DOMAIN a.items : SameBag(a.items[i].v, b.items[i].v)

\* C23: the digest of a bag is the digest of every bag equal to it up to the
\* order of object keys at every depth, and of no other bag.
C23_HashUpToKeyOrder ==
  output # NoValue =>
    \A b \in Bags : (output = Str(PropertiesHash(b))) <=> SameBag(input, b)

\* the digest was taken of a bag whose keys, at both depths, were inserted in
\* the order opposite to the sorted one
C23_Witness ==
  /\ output # NoValue
  /\ Len(input.items) = 2 /\ Before(input.items[2].k, input.items[1].k)
  /\ input.items[1].v.t = "obj" /\ Len(input.items[1].v.items) = 2
  /\ Before(input.items[1].v.items[2].k, input.items[1].v.items[1].k)
  /\ input.items[2].v.t = "arr"
  /\ \E b \in Bags : b # input /\ output = Str(PropertiesHash(b))
\* --------------------------------------------------------- the diff command
\* a field that is undefined
Undefined == [t |-> "undefined", s |-> << >>, items |-> << >>]
JsNull == Lit(<<"null">>)
True == Lit(<<"true">>)

\* `if (v !== undefined) obj[k] = v`, on an object built member by member
Put(obj, k, v) ==
  IF v = Undefined THEN obj ELSE [obj EXCEPT !.items = Append(@, [k |-> <<k>>, v |-> v])]

\* the members of an object whose key is none of ks, in their order
RECURSIVE Without(_, _)
Without(items, ks) ==
  IF items = << >> THEN << >>
  ELSE (IF Head(items).k \in ks THEN << >> ELSE <<Head(items)>>) \o Without(Tail(items), ks)

\* the keys the tool keeps for itself in metadata
InternalKeys == {<<"pricectl_id">>, <<"pricectl_path">>, <<"fillet_id">>, <<"fillet_path">>}

\* Product.synthesizeProperties(): name and active first, then what is set
ProductParams(name, description, metadata, url) ==
  Put(Put(Put(Put(Put(Obj(<< >>), "name", name), "active", True),
              "description", description), "metadata", metadata), "url", url)

\* Diff.normalizeResource(product, 'Stripe::Product')
DiffNormalize(product) ==
  LET fields == Put(Put(Put(Put(Obj(<< >>), "name", product.name),
                            "description", product.description),
                        "active", product.active), "url", product.url)
      userMetadata == IF product.metadata = Undefined THEN << >>
                      ELSE Without(product.metadata.items, InternalKeys)
  IN IF userMetadata # << >> THEN Put(fields, "metadata", Obj(userMetadata)) ELSE fields

\* what diff says of an entry
WillBeCreated == Str(<<"Will be created">>)
Changed == Str(<<"changed">>)
NoChange == Str(<<"no change">>)

\* Diff.run for one entry: `current` is what fetchCurrentResource returned
DiffEntry(found, current, properties) ==
  IF ~found THEN WillBeCreated
  ELSE IF JSONstringify(properties) # JSONstringify(DiffNormalize(current))
  THEN Changed ELSE NoChange

\* metadata as set by the user and as the provider holds it
Plan == [k |-> <<"plan">>, v |-> Str(<<"pro">>)]
Tags == <<[k |-> <<"pricectl_id">>, v |-> Str(<<"MyProduct">>)],
          [k |-> <<"pricectl_path">>, v |-> Str(<<"TestStack/MyProduct">>)]>>

\* a remote Product as the provider returns it
RemoteProducts ==
  { [name |-> n, description |-> d, active |-> True, url |-> u, metadata |-> m] :
      n \in {Str(<<"Widget">>), Str(<<"Gadget">>)},
      d \in {Undefined, JsNull, Str(<<"A widget">>)},
      u \in {Undefined, Str(<<"https://example.com">>)},
      m \in {Undefined, Obj(Tags), Obj(Tags \o <<Plan>>), Obj(<<Plan>> \o Tags)} }

\* the Product entries of a manifest
DesiredProducts ==
  { ProductParams(n, d, m, u) :
      n \in {Str(<<"Widget">>), Str(<<"Gadget">>)},
      d \in {Undefined, Str(<<"A widget">>)},
      m \in {Undefined, Obj(<<Plan>>)},
      u \in {Undefined, Str(<<"https://example.com">>)} }

DiffInit ==
  /\ input \in {[found |-> f, current |-> c, properties |-> d] :
                  f \in BOOLEAN, c \in RemoteProducts, d \in DesiredProducts}
  /\ output = NoValue
  /\ nodes = << >>
  /\ disk = NoFiles
  /\ spc = "none"
  /\ procs = [p \in Procs |-> NotStarted]
  /\ lastRename = "none"
  /\ last = NoCall
  /\ hasState = TRUE /\ unsetAs = Undef
  /\ remote = EmptyMap /\ nextPhys = 0 /\ state = EmptyMap
  /\ fails = 0
  /\ logicalToPhysicalId = EmptyMap
  /\ runs = 0
  /\ op = "none"
  /\ manifest = NoManifest
  /\ pc = "idle"
  /\ idx = 1
  /\ inflight = << >>
  /\ resp = NoResp
  /\ calls = << >>
  /\ deployed = << >>
  /\ destroyed = << >>
  /\ errors = << >>

\* one turn of the loop of Diff.run
RunDiff ==
  /\ output = NoValue
  /\ output' = DiffEntry(input.found, input.current, input.properties)
  /\ UNCHANGED <<pureOthers, input>>

DiffNext == RunDiff

DiffSpec == DiffInit /\ [][DiffNext]_vars

\* C24: diff says 'will be created' exactly when the lookup found nothing,
\* and otherwise reports a change exactly when the normalized remote object
\* and the desired bag differ in more than the order of their keys.
C24_DiffIsStructural ==
  output # NoValue =>
    /\ output = WillBeCreated <=> ~input.found
    /\ input.found =>
         (output = Changed <=> ~SameBag(DiffNormalize(input.current), input.properties))
\* ------------------------------------------ normalizeResource (stripe-utils)
\* stripInternalMetadata(metadata): the four identity tags taken out; NoMeta
\* stands for the undefined it returns when no key remains
stripInternalMetadata(metadata) ==
  [k \in MetaKeys |->
     IF k \in {"pricectl_id", "pricectl_path", "fillet_id", "fillet_path"} THEN Undef
     ELSE metadata[k]]

\* normalizeResource(resource, resourceType) for a Product or a Price: the
\* fields of the bag, and the metadata stripped
normalizeResource(bag) == [bag EXCEPT !.metadata = stripInternalMetadata(@)]

\* the metadata keys a user's declaration sets
UserKeys == {"plan"}

\* C25: what normalize yields for a remote Product or Price has none of the
\* identity tags in its metadata, no key other than those the user set, and no
\* metadata at all when no user-set key remains.
C25_NormalizeKeepsUserFields ==
  \A p \in DOMAIN remote :
    remote[p].type \in {TProduct, TPrice} =>
      LET normalized == normalizeResource(remote[p].bag) IN
        /\ \A k \in {"pricectl_id", "pricectl_path", "fillet_id"} : normalized.metadata[k] = Undef
        /\ \A k \in MetaKeys : normalized.metadata[k] # Undef => k \in UserKeys
        /\ (\A k \in UserKeys : remote[p].bag.metadata[k] = Undef) => normalized.metadata = NoMeta

\* ------------------------------------------- escapeSearchQuery (stripe-utils)
MaxIdLen == 4

Backslash == "\\"
Quote == "\""

\* the characters a logical id is made of
IdChars == {"a", Backslash, Quote}

\* the logical ids of at most MaxIdLen characters
Ids == UNION {[1..n -> IdChars] : n \in 0..MaxIdLen}

\* String.prototype.replace(/c/g, r) for a pattern of one character
RECURSIVE replace(_, _, _)
replace(s, c, r) ==
  IF s = << >> THEN << >>
  ELSE (IF Head(s) = c THEN r ELSE <<Head(s)>>) \o replace(Tail(s), c, r)

\* the quotes prefixed first, the backslashes doubled after
escapeSearchQuery_QuoteFirst(id) ==
  replace(replace(id, Quote, <<Backslash, Quote>>), Backslash, <<Backslash, Backslash>>)

\* id.replace(/\\/g, '\\\\').replace(/"/g, '\\"')
escapeSearchQuery(id) ==
  replace(replace(id, Backslash, <<Backslash, Backslash>>), Quote, <<Backslash, Quote>>)

\* replace(/ab/g, r) for a pattern of two characters
RECURSIVE replace2(_, _, _, _)
replace2(s, a, b, r) ==
  IF s = << >> THEN << >>
  ELSE IF Len(s) >= 2 /\ s[1] = a /\ s[2] = b
    THEN r \o replace2(SubSeq(s, 3, Len(s)), a, b, r)
    ELSE <<Head(s)>> \o replace2(Tail(s), a, b, r)

\* the rule reversed: the backslash taken off each quote, then each doubled
\* backslash made single
unescape(q) ==
  replace2(replace2(q, Backslash, Quote, <<Quote>>), Backslash, Backslash, <<Backslash>>)

\* the number of backslashes that directly precede position i of s
RECURSIVE BackslashesBefore(_, _)
BackslashesBefore(s, i) ==
  IF i > 1 /\ s[i - 1] = Backslash THEN 1 + BackslashesBefore(s, i - 1) ELSE 0

EscapeInit ==
  /\ input \in {Str(id) : id \in Ids}
  /\ output = NoValue
  /\ nodes = << >>
  /\ disk = NoFiles
  /\ spc = "none"
  /\ procs = [p \in Procs |-> NotStarted]
  /\ lastRename = "none"
  /\ last = NoCall
  /\ hasState = TRUE /\ unsetAs = Undef
  /\ remote = EmptyMap /\ nextPhys = 0 /\ state = EmptyMap
  /\ fails = 0
  /\ logicalToPhysicalId = EmptyMap
  /\ runs = 0
  /\ op = "none"
  /\ manifest = NoManifest
  /\ pc = "idle"
  /\ idx = 1
  /\ inflight = << >>
  /\ resp = NoResp
  /\ calls = << >>
  /\ deployed = << >>
  /\ destroyed = << >>
  /\ errors = << >>

\* escapeSearchQuery(input)
Escape ==
  /\ output = NoValue
  /\ output' = Str(escapeSearchQuery(input.s))
  /\ UNCHANGED <<pureOthers, input>>

EscapeNext == Escape

EscapeSpec == EscapeInit /\ [][EscapeNext]_vars

\* C26: in the escaped form of a logical id every double quote is preceded by
\* an odd number of backslashes, and reversing the rule on the escaped form
\* yields the id.
C26_EscapeRoundTrip ==
  output # NoValue =>
    /\ \A i \in DOMAIN output.s :
         output.s[i] = Quote => BackslashesBefore(output.s, i) % 2 = 1
    /\ unescape(output.s) = input.s

\* an id in which a backslash stands directly before a quote has been escaped
C26_Witness ==
  /\ output # NoValue
  /\ \E i \in DOMAIN input.s : i > 1 /\ input.s[i] = Quote /\ input.s[i - 1] = Backslash
  /\ \E i \in DOMAIN input.s : i < Len(input.s) /\ input.s[i] = Quote /\ input.s[i + 1] = Backslash

\* ------------------------------------------------- construct tree (core)
MaxNodes == 3

\* the ids given to constructs, as the characters they are made of
TreeIds == {<< >>, <<" ">>, <<"A">>, <<"B">>}

Whitespace == {" ", "\t", "\n"}

\* String.prototype.trim()
RECURSIVE trim(_)
trim(id) ==
  IF id = << >> THEN id
  ELSE IF Head(id) \in Whitespace THEN trim(Tail(id))
  ELSE IF id[Len(id)] \in Whitespace THEN trim(SubSeq(id, 1, Len(id) - 1))
  ELSE id

\* what a constructor throws; NoError when it returns
Error(message, id, path) == [message |-> message, id |-> id, path |-> path]
NoError == Error("none", << >>, << >>)
EMPTY_LOGICAL_ID_ERROR == Error("Construct id must not be an empty string", << >>, << >>)
DUPLICATE_LOGICAL_ID_ERROR(id, path) == Error("There is already a child construct with id", id, path)
ApiKeyRequired == Error("Stripe API key is required", << >>, << >>)
MustBeCreatedWithinAStack(path) == Error("must be created within a Stack", << >>, path)

\* getMetadata('resource') of a node nothing was registered on
NoResource == [type |-> Undef, properties |-> EmptyMap]

\* new ConstructNode(host, id, scope); class is the class of the host, 0 as
\* scope or stack is undefined
ConstructNode(class, id, scope) ==
  [class |-> class, id |-> id, scope |-> scope, children |-> << >>,
   metadata |-> NoResource, stack |-> 0]

\* Array.prototype.join
RECURSIVE join(_, _)
join(parts, sep) ==
  IF parts = << >> THEN << >>
  ELSE IF Len(parts) = 1 THEN parts[1]
  ELSE parts[1] \o <<sep>> \o join(Tail(parts), sep)

\* the loop of ConstructNode.path: the ids from the root down to n
RECURSIVE parts(_, _)
parts(ns, n) ==
  IF n = 0 THEN << >>
  ELSE parts(ns, ns[n].scope) \o (IF ns[n].id # << >> THEN <<ns[n].id>> ELSE << >>)

\* ConstructNode.path
path(ns, n) == join(parts(ns, n), "/")

\* what a constructor call comes to: the tree after it, what it threw, and
\* the construct made
Built(ns, threw, self) == [nodes |-> ns, threw |-> threw, self |-> self]

\* addChild that pushes without looking
addChild_Unchecked(ns, scope, child) ==
  Built([ns EXCEPT ![scope].children = Append(@, child)], NoError, child)

\* ConstructNode.addChild(child) on the node of scope
addChild(ns, scope, child) ==
  IF \E i \in DOMAIN ns[scope].children : ns[ns[scope].children[i]].id = ns[child].id
    THEN Built(ns, DUPLICATE_LOGICAL_ID_ERROR(ns[child].id, path(ns, scope)), child)
    ELSE Built([ns EXCEPT ![scope].children = Append(@, child)], NoError, child)

\* Construct.constructor(scope, id), run for an object of the given class
newConstruct(ns, class, scope, id) ==
  IF trim(id) = << >> THEN Built(ns, EMPTY_LOGICAL_ID_ERROR, 0)
  ELSE LET self == Len(ns) + 1
           made == Append(ns, ConstructNode(class, id, scope))
       IN IF scope # 0 THEN addChild(made, scope, self) ELSE Built(made, NoError, self)

\* the values of props.apiKey || process.env.STRIPE_SECRET_KEY
ApiKeys == {Undef, "sk_test"}

\* Stack.constructor(scope, id, props)
newStack(ns, scope, id, apiKey) ==
  LET super == newConstruct(ns, "Stack", scope, id) IN
    IF super.threw # NoError THEN super
    ELSE IF apiKey = Undef THEN Built(super.nodes, ApiKeyRequired, super.self)
    ELSE super

\* the Stack furthest up among the ancestors of scope, 0 when there is none
RECURSIVE findStack_Outermost(_, _)
findStack_Outermost(ns, scope) ==
  IF scope = 0 THEN 0
  ELSE LET above == findStack_Outermost(ns, ns[scope].scope) IN
    IF above # 0 THEN above ELSE IF ns[scope].class = "Stack" THEN scope ELSE 0

\* the loop of Resource.findStack, started at this.node.scope; 0 when the
\* loop ends without a Stack
RECURSIVE findStack(_, _)
findStack(ns, scope) ==
  IF scope = 0 THEN 0
  ELSE IF ns[scope].class = "Stack" THEN scope
  ELSE findStack(ns, ns[scope].scope)

\* Resource.constructor(scope, id, props), run for an object of the given class
newResource(ns, class, scope, id) ==
  LET super == newConstruct(ns, class, scope, id) IN
    IF super.threw # NoError THEN super
    ELSE LET stack == findStack(super.nodes, super.nodes[super.self].scope) IN
      IF stack = 0
        THEN Built(super.nodes, MustBeCreatedWithinAStack(path(super.nodes, super.self)),
                     super.self)
        ELSE Built([super.nodes EXCEPT ![super.self].stack = stack], NoError, super.self)

\* Resource.registerResourceMetadata()
registerResourceMetadata(ns, self, type, properties) ==
  [ns EXCEPT ![self].metadata = [type |-> type, properties |-> properties]]

\* the props the tests give a TestResource
TestProps == {[type |-> TProduct, properties |-> [name |-> "Widget"]]}

\* TestResource.constructor(scope, id, props)
newTestResource(ns, scope, id, props) ==
  LET super == newResource(ns, "TestResource", scope, id) IN
    IF super.threw # NoError THEN super
    ELSE Built(registerResourceMetadata(super.nodes, super.self, props.type, props.properties),
                 NoError, super.self)

\* findAll that stops at the children
findAll_ChildrenOnly(ns, n) == <<n>> \o ns[n].children

\* ConstructNode.findAll() on the node of n
RECURSIVE findAll(_, _)
RECURSIVE findAllOf(_, _)
findAll(ns, n) == <<n>> \o findAllOf(ns, ns[n].children)
findAllOf(ns, children) ==
  IF children = << >> THEN << >>
  ELSE findAll(ns, Head(children)) \o findAllOf(ns, Tail(children))

\* the entry synth() pushes for a construct
ResourceManifest(ns, n) ==
  [id |-> ns[n].id, path |-> path(ns, n),
   type |-> ns[n].metadata.type, properties |-> ns[n].metadata.properties]

\* the loop of Stack.synth() over the constructs found
RECURSIVE collect(_, _, _)
collect(ns, this, constructs) ==
  IF constructs = << >> THEN << >>
  ELSE (IF Head(constructs) # this /\ ns[Head(constructs)].metadata # NoResource
          THEN <<ResourceManifest(ns, Head(constructs))>> ELSE << >>)
       \o collect(ns, this, Tail(constructs))

\* Stack.synth(): the resources of the manifest
synth(ns, this) == collect(ns, this, findAll(ns, this))

\* the call made last: a constructor or synth, its arguments, what it threw,
\* the construct it was made on or made, and what synth returned
Called(call, scope, id, threw, self, resources) ==
  [call |-> call, scope |-> scope, id |-> id, threw |-> threw, self |-> self,
   resources |-> resources]

\* a construct whose constructor threw before any scope held it is out of reach
Kept(r) ==
  IF r.threw # NoError /\ r.self # 0
       /\ \A n \in DOMAIN r.nodes : \A i \in DOMAIN r.nodes[n].children :
            r.nodes[n].children[i] # r.self
    THEN Built(SubSeq(r.nodes, 1, Len(r.nodes) - 1), r.threw, 0)
    ELSE r

treeOthers == <<hasState, unsetAs, remote, nextPhys, fails, state, logicalToPhysicalId, runs, op,
                manifest, pc, idx, inflight, resp, calls, deployed, destroyed, errors,
                disk, spc, procs, lastRename, input, output>>

TreeInit ==
  /\ nodes = << >>
  /\ last = Called("none", 0, << >>, NoError, 0, << >>)
  /\ input = NoValue
  /\ output = NoValue
  /\ disk = NoFiles
  /\ spc = "none"
  /\ procs = [p \in Procs |-> NotStarted]
  /\ lastRename = "none"
  /\ hasState = TRUE /\ unsetAs = Undef
  /\ remote = EmptyMap /\ nextPhys = 0 /\ state = EmptyMap
  /\ fails = 0
  /\ logicalToPhysicalId = EmptyMap
  /\ runs = 0
  /\ op = "none"
  /\ manifest = NoManifest
  /\ pc = "idle"
  /\ idx = 1
  /\ inflight = << >>
  /\ resp = NoResp
  /\ calls = << >>
  /\ deployed = << >>
  /\ destroyed = << >>
  /\ errors = << >>

\* the constructs a caller can name as scope: undefined, or one of the tree
Scopes == {0} \cup DOMAIN nodes

\* the call returned or threw: the tree it leaves and the record of it
Returned(call, scope, id, r) ==
  /\ Len(nodes) < MaxNodes
  /\ nodes' = Kept(r).nodes
  /\ last' = Called(call, scope, id, r.threw, Kept(r).self, << >>)
  /\ UNCHANGED treeOthers

\* new Construct(scope, id)
NewConstruct ==
  \E scope \in Scopes, id \in TreeIds :
    Returned("Construct", scope, id, newConstruct(nodes, "Construct", scope, id))

\* new Stack(scope, id, {apiKey})
NewStack ==
  \E scope \in Scopes, id \in TreeIds, apiKey \in ApiKeys :
    Returned("Stack", scope, id, newStack(nodes, scope, id, apiKey))

\* new TestResource(scope, id, props)
NewTestResource ==
  \E scope \in Scopes, id \in TreeIds, props \in TestProps :
    Returned("TestResource", scope, id, newTestResource(nodes, scope, id, props))

\* stack.synth()
Synth ==
  /\ \E this \in DOMAIN nodes :
       /\ nodes[this].class = "Stack"
       /\ last' = Called("synth", 0, << >>, NoError, this, synth(nodes, this))
  /\ UNCHANGED <<treeOthers, nodes>>

TreeNext == NewConstruct \/ NewStack \/ NewTestResource \/ Synth

TreeSpec == TreeInit /\ [][TreeNext]_vars

\* the children of a scope, as the scope pointers of the tree give them
ChildrenOf(scope) == {n \in DOMAIN nodes : nodes[n].scope = scope}

\* an id of no character, or of whitespace alone
Blank(id) == \A i \in DOMAIN id : id[i] \in Whitespace

\* C27: constructing a node fails with the empty-identifier error exactly
\* when its id is empty or whitespace-only, and with the duplicate-identifier
\* error exactly when its scope already has a child with that id; no two
\* children of one scope share an id.
C27_IdsValidated ==
  /\ last.call \in {"Construct", "Stack", "TestResource"} =>
       /\ last.threw = EMPTY_LOGICAL_ID_ERROR <=> Blank(last.id)
       /\ last.threw = DUPLICATE_LOGICAL_ID_ERROR(last.id, path(nodes, last.scope))
            <=> /\ last.scope # 0
                /\ \E c \in ChildrenOf(last.scope) \ {last.self} : nodes[c].id = last.id
  /\ \A a, b \in DOMAIN nodes :
       (a # b /\ nodes[a].scope # 0 /\ nodes[a].scope = nodes[b].scope) => nodes[a].id # nodes[b].id

\* a second child of the same id has been refused under one scope, while the
\* id stands accepted under another scope
C27_Witness ==
  /\ last.threw = DUPLICATE_LOGICAL_ID_ERROR(last.id, path(nodes, last.scope))
  /\ \E a, b \in DOMAIN nodes :
       /\ nodes[a].id = last.id /\ nodes[b].id = last.id
       /\ nodes[a].scope = last.scope /\ nodes[b].scope # last.scope

\* the constructs above n, by the scope pointers
RECURSIVE Ancestors(_)
Ancestors(n) ==
  IF nodes[n].scope = 0 THEN {} ELSE {nodes[n].scope} \cup Ancestors(nodes[n].scope)

\* the descendants of a stack that carry resource metadata
Carrying(this) == {n \in DOMAIN nodes : this \in Ancestors(n) /\ nodes[n].metadata # NoResource}

\* a comes before b in pre-order: a is above b, or the branch holding a was
\* inserted before the branch holding b under the construct where they part
Precedes(a, b) ==
  \/ a \in Ancestors(b)
  \/ \E p \in DOMAIN nodes : \E i, j \in DOMAIN nodes[p].children :
       /\ i < j
       /\ nodes[p].children[i] \in {a} \cup Ancestors(a)
       /\ nodes[p].children[j] \in {b} \cup Ancestors(b)

\* the manifest entry of a construct: logical id, path, kind, property bag
EntryOf(n) ==
  [id |-> nodes[n].id, path |-> path(nodes, n),
   type |-> nodes[n].metadata.type, properties |-> nodes[n].metadata.properties]

\* C28: synth() returns exactly the descendants of the stack that carry
\* resource metadata, each once, with logical id, path, kind and property
\* bag, in pre-order; the stack itself and plain grouping nodes are left out.
C28_SynthIsPreOrder ==
  last.call = "synth" =>
    LET resources == last.resources IN
      /\ Len(resources) = Cardinality(Carrying(last.self))
      /\ \A n \in Carrying(last.self) : \E i \in DOMAIN resources : resources[i] = EntryOf(n)
      /\ \A i, j \in DOMAIN resources :
           i < j => \E a, b \in Carrying(last.self) :
                      resources[i] = EntryOf(a) /\ resources[j] = EntryOf(b) /\ Precedes(a, b)

\* synth() has returned a resource made under a plain grouping construct of
\* the stack, and nothing for the grouping construct or the stack
C28_Witness ==
  /\ last.call = "synth"
  /\ Len(last.resources) = 1
  /\ \E g, r \in DOMAIN nodes :
       /\ nodes[g].class = "Construct" /\ nodes[g].scope = last.self
       /\ nodes[r].scope = g /\ last.resources[1] = EntryOf(r)

\* the Stacks above the construct made last under scope last.scope
StacksAbove ==
  IF last.scope = 0 THEN {}
  ELSE {a \in {last.scope} \cup Ancestors(last.scope) : nodes[a].class = "Stack"}

\* the path of the construct made last: the ids from the root down to it
PathOfLast ==
  IF last.scope = 0 THEN last.id ELSE path(nodes, last.scope) \o <<"/">> \o last.id

\* C29: constructing a Resource sets its stack to the nearest ancestor that
\* is a Stack, and fails with an error naming the resource's path when no
\* ancestor is a Stack.
C29_NearestStack ==
  (/\ last.call = "TestResource"
   /\ last.threw # EMPTY_LOGICAL_ID_ERROR
   /\ last.threw # DUPLICATE_LOGICAL_ID_ERROR(last.id, path(nodes, last.scope))) =>
    IF StacksAbove = {}
      THEN last.threw = MustBeCreatedWithinAStack(PathOfLast)
      ELSE /\ last.threw = NoError
           /\ nodes[last.self].stack \in StacksAbove
           /\ \A b \in StacksAbove \ {nodes[last.self].stack} :
                b \in Ancestors(nodes[last.self].stack)

\* a Resource has been made below a Stack that is itself below a Stack
C29_Witness ==
  /\ last.call = "TestResource"
  /\ last.threw = NoError
  /\ \E b \in Ancestors(nodes[last.self].stack) : nodes[b].class = "Stack"

\* ------------------------------------------------------ Coupon (constructs)
\* the props a Coupon is made with; numbers as their digits, Undef for a
\* member left out
CouponProps ==
  {[duration |-> d, amountOff |-> a, currency |-> c, percentOff |-> p, durationInMonths |-> m] :
     d \in {"forever", "once", "repeating"}, a \in {Undef, "0", "500"}, c \in {Undef, "usd"},
     p \in {Undef, "0", "10"}, m \in {Undef, "3"}}

ExactlyOneOf == Error("Exactly one of amountOff or percentOff must be specified", << >>, << >>)
DurationInMonthsRequired ==
  Error("durationInMonths is required when duration is \"repeating\"", << >>, << >>)
CurrencyRequired == Error("currency is required when amountOff is specified", << >>, << >>)

\* the checks with the first one passing when both are given
validate_BothAllowed(props) ==
  IF props.amountOff = Undef /\ props.percentOff = Undef THEN ExactlyOneOf
  ELSE IF props.duration = "repeating" /\ props.durationInMonths = Undef
    THEN DurationInMonthsRequired
  ELSE IF props.amountOff # Undef /\ props.currency = Undef THEN CurrencyRequired
  ELSE NoError

\* the three checks of Coupon's constructor: what is thrown, NoError when
\* all pass
validate(props) ==
  LET hasAmountOff == props.amountOff # Undef
      hasPercentOff == props.percentOff # Undef
  IN IF hasAmountOff = hasPercentOff THEN ExactlyOneOf
     ELSE IF props.duration = "repeating" /\ props.durationInMonths = Undef
       THEN DurationInMonthsRequired
     ELSE IF props.amountOff # Undef /\ props.currency = Undef THEN CurrencyRequired
     ELSE NoError

\* Coupon.synthesizeProperties(): a member is Undef when the key is not set
synthesizeProperties(props) ==
  [duration |-> props.duration, amount_off |-> props.amountOff, currency |-> props.currency,
   percent_off |-> props.percentOff, duration_in_months |-> props.durationInMonths]

\* Coupon.constructor(scope, id, props)
newCoupon(ns, scope, id, props) ==
  LET super == newResource(ns, "Coupon", scope, id) IN
    IF super.threw # NoError THEN super
    ELSE IF validate(props) # NoError THEN Built(super.nodes, validate(props), super.self)
    ELSE Built(registerResourceMetadata(super.nodes, super.self, TCoupon,
                                        synthesizeProperties(props)),
               NoError, super.self)

\* the trees a Coupon is made in: a Stack, as createStack() gives it, or a
\* plain construct
CouponScopes ==
  {newStack(<< >>, 0, <<"B">>, "sk_test").nodes, newConstruct(<< >>, "Construct", 0, <<"B">>).nodes}

CouponInit ==
  /\ nodes \in CouponScopes
  /\ last = Called("none", 0, << >>, NoError, 0, << >>)
  /\ input \in {[scope |-> 1, id |-> id, props |-> props] : id \in TreeIds, props \in CouponProps}
  /\ output = NoValue
  /\ disk = NoFiles
  /\ spc = "none"
  /\ procs = [p \in Procs |-> NotStarted]
  /\ lastRename = "none"
  /\ hasState = TRUE /\ unsetAs = Undef
  /\ remote = EmptyMap /\ nextPhys = 0 /\ state = EmptyMap
  /\ fails = 0
  /\ logicalToPhysicalId = EmptyMap
  /\ runs = 0
  /\ op = "none"
  /\ manifest = NoManifest
  /\ pc = "idle"
  /\ idx = 1
  /\ inflight = << >>
  /\ resp = NoResp
  /\ calls = << >>
  /\ deployed = << >>
  /\ destroyed = << >>
  /\ errors = << >>

\* new Coupon(input.scope, input.id, input.props)
NewCoupon ==
  /\ last.call = "none"
  /\ Returned("Coupon", input.scope, input.id,
              newCoupon(nodes, input.scope, input.id, input.props))

CouponNext == NewCoupon

CouponSpec == CouponInit /\ [][CouponNext]_vars

\* the three rules of a Coupon's props
RulesHold(props) ==
  /\ (props.amountOff = Undef) # (props.percentOff = Undef)
  /\ props.duration = "repeating" => props.durationInMonths # Undef
  /\ props.amountOff # Undef => props.currency # Undef

\* the base classes took the id and the scope of the construct made last
BaseAccepted ==
  /\ last.threw # EMPTY_LOGICAL_ID_ERROR
  /\ last.threw # DUPLICATE_LOGICAL_ID_ERROR(last.id, path(nodes, last.scope))
  /\ last.threw # MustBeCreatedWithinAStack(PathOfLast)

\* C30: the construction of a Coupon, under an id and a scope its base
\* classes accept, succeeds exactly when its props keep the three rules;
\* when it raises no property bag has been produced.
C30_CouponRules ==
  last.call = "Coupon" =>
    /\ BaseAccepted => (last.threw = NoError <=> RulesHold(input.props))
    /\ last.threw # NoError => \A n \in DOMAIN nodes : nodes[n].metadata = NoResource

\* a Coupon with amountOff 0 and no currency has been refused after its
\* construct joined the stack
C30_Witness ==
  /\ last.call = "Coupon"
  /\ last.threw = CurrencyRequired
  /\ input.props.amountOff = "0"
  /\ last.self # 0 /\ nodes[last.self].scope = 1

\* ------------------------------------------------ the commands (cli)
\* new StripeDeployer(...args): the parameters apiKey, apiVersion and
\* stateManager take the arguments by position
StripeDeployer(args) ==
  [apiKey |-> args[1],
   apiVersion |-> IF Len(args) >= 2 THEN args[2] ELSE Undef,
   stateManager |-> IF Len(args) >= 3 THEN args[3] ELSE Undef]

\* what the commands find on disk: no state file, or one that tracks a Product
CommandFiles == {NoFiles, [NoFiles EXCEPT ![filePath] = File(Serialize(StaleState))]}

CommandInit ==
  /\ disk \in CommandFiles
  /\ spc = "none"
  /\ procs = [p \in Procs |-> NotStarted]
  /\ lastRename = "none"
  /\ last = NoCall
  /\ input = NoValue
  /\ output = NoValue
  /\ nodes = << >>
  /\ hasState = FALSE
  /\ unsetAs \in {Undef, Null}
  /\ \/ remote = EmptyMap /\ nextPhys = 0
     \/ remote = [p \in {PhysNames[1]} |-> LeftOver] /\ nextPhys = 1
  /\ state = EmptyMap
  /\ fails = 0
  /\ logicalToPhysicalId = EmptyMap
  /\ runs = 0
  /\ op = "none"
  /\ manifest = NoManifest
  /\ pc = "idle"
  /\ idx = 1
  /\ inflight = << >>
  /\ resp = NoResp
  /\ calls = << >>
  /\ deployed = << >>
  /\ destroyed = << >>
  /\ errors = << >>

\* Deploy.run up to the first step of deploy(): the deployer is made with the
\* key and the manifest's apiVersion; the command makes no StateManager
DeployCommand(m) ==
  /\ pc \in {"idle", "done"} /\ spc \in {"none", "saved"} /\ runs < MaxRuns
  /\ hasState' = (StripeDeployer(<<"apiKey", "apiVersion">>).stateManager # Undef)
  /\ state' = EmptyMap
  /\ spc' = "none"
  /\ op' = "deploy" /\ manifest' = m /\ runs' = runs + 1
  /\ deployed' = << >> /\ errors' = << >> /\ destroyed' = << >>
  /\ logicalToPhysicalId' = EmptyMap
  /\ calls' = << >> /\ fails' = 0 /\ resp' = NoResp
  /\ idx' = 1 /\ pc' = "next"
  /\ UNCHANGED <<unsetAs, disk, procs, lastRename, last, input, output, nodes,
                 remote, nextPhys, inflight>>

\* Destroy.run with --force up to the first step of destroy(): the state is
\* loaded, the deployer is made with the key and the StateManager
DestroyCommand(m) ==
  /\ pc \in {"idle", "done"} /\ spc \in {"none", "saved"} /\ runs < MaxRuns
  /\ state' = load(disk[filePath]).stacks
  /\ hasState' = (StripeDeployer(<<"apiKey", "stateManager">>).stateManager # Undef)
  /\ spc' = "destroying"
  /\ op' = "destroy" /\ manifest' = m /\ runs' = runs + 1
  /\ deployed' = << >> /\ errors' = << >> /\ destroyed' = << >>
  /\ logicalToPhysicalId' = EmptyMap
  /\ calls' = << >> /\ fails' = 0 /\ resp' = NoResp
  /\ idx' = 1 /\ pc' = "next"
  /\ UNCHANGED <<unsetAs, disk, procs, lastRename, last, input, output, nodes,
                 remote, nextPhys, inflight>>

\* Destroy.run after destroy() has returned: stateManager.save()
SaveAfterDestroy ==
  /\ pc = "done" /\ spc = "destroying"
  /\ disk' = Rename([disk EXCEPT ![tmpPath] = File(Serialize(state))], tmpPath, filePath)
  /\ spc' = "saved"
  /\ UNCHANGED <<deployer, state>>

\* (no command hands the deployer a StateManager, so retrieve-by-state never runs)
CommandNext ==
  \/ \E m \in Manifests : DeployCommand(m)
  \/ \E m \in Manifests : DestroyCommand(m)
  \/ SaveAfterDestroy
  \/ Entry_
  \/ Return
  \/ AfterSearch
  \/ AfterCouponRetrieve
  \/ AfterList
  \/ AfterDeactivate
  \/ AfterUpdate
  \/ AfterCreate
  \/ AfterDelete
  \/ AfterDestroyDeactivate
  \/ RespondOk
  \/ RespondMissing
  \/ RespondError

CommandSpec == CommandInit /\ [][CommandNext]_vars

\* C31: after the destroy command has run with --force and every entry was
\* destroyed without error, the state file it saved holds no entry for a
\* resource of the destroyed stack.
C31_SavedStateForgetsStack ==
  (/\ spc = "saved" /\ pc = "done" /\ op = "destroy"
   /\ errors = << >> /\ Len(destroyed) = Len(manifest.resources)) =>
    LET saved == load(disk[filePath]).stacks IN
      \A i \in DOMAIN manifest.resources :
        getResource(saved, manifest.stackId, manifest.resources[i].id) = NoEntry

\* ------------------------------------------------ deploy() run again
\* the first deploy() of a deployer
FirstDeploy(m) == runs = 0 /\ StartDeploy(m)

\* deploy() of the same manifest by the same deployer, right after a run that
\* returned no error; `output` keeps the result the run before returned
Redeploy ==
  /\ pc = "done" /\ op = "deploy" /\ errors = << >> /\ runs < MaxRuns
  /\ output' = deployed
  /\ op' = "deploy" /\ manifest' = manifest /\ runs' = runs + 1
  /\ deployed' = << >> /\ errors' = << >> /\ destroyed' = << >>
  /\ logicalToPhysicalId' = EmptyMap
  /\ calls' = << >> /\ fails' = 0 /\ resp' = NoResp
  /\ idx' = 1 /\ pc' = "next"
  /\ UNCHANGED <<hasState, unsetAs, disk, spc, procs, lastRename, last, input, nodes,
                 remote, nextPhys, state, inflight>>

RedeployNext ==
  \/ \E m \in Manifests : FirstDeploy(m)
  \/ Redeploy
  \/ Entry_
  \/ Return
  \/ AfterRetrieve
  \/ AfterSearch
  \/ AfterCouponRetrieve
  \/ AfterList
  \/ AfterDeactivate
  \/ AfterUpdate
  \/ AfterCreate
  \/ RespondOk
  \/ RespondMissing
  \/ RespondError

RedeploySpec == Init /\ [][RedeployNext]_vars

WriteApis == {"create", "update", "deactivate", "del"}
Catalogue == {TProduct, TPrice, TCoupon}

\* C32: a second deploy() of the same manifest, with the state store of the
\* first run and the remote as the first run left it, issues no create, update
\* or deactivate call for a Product, Price or Coupon entry, and reports each of
\* them as unchanged with the physical id the first run reported (no call of
\* the second run being failed by the provider).
C32_RedeployIsNoOp ==
  (runs >= 2 /\ fails = 0) =>
    /\ \A i \in DOMAIN calls :
         calls[i].type \in Catalogue => calls[i].api \notin WriteApis
    /\ (pc = "done" /\ errors = << >>) =>
         \A i \in DOMAIN manifest.resources :
           manifest.resources[i].type \in Catalogue =>
             \E j \in DOMAIN deployed, k \in DOMAIN output :
               /\ deployed[j].id = manifest.resources[i].id
               /\ deployed[j].status = "unchanged"
               /\ output[k].id = deployed[j].id
               /\ output[k].physicalId = deployed[j].physicalId

\* the remote Prices that are active and carry the logical id in pricectl_id
ActivePrices(lid) ==
  { p \in DOMAIN remote :
      /\ remote[p].type = TPrice
      /\ ~remote[p].deleted
      /\ remote[p].bag.active = "true"
      /\ remote[p].bag.metadata["pricectl_id"] = lid }

LogicalIds == {"MyProduct", "MyPrice"}

\* C33: after any sequence of deploy() runs of a stack, also runs that start
\* without a state store, at most one active remote Price carries a given
\* logical id in its pricectl_id tag.
C33_OneActivePricePerId ==
  \A lid \in LogicalIds : Cardinality(ActivePrices(lid)) <= 1

\* ------------------------------------------------ runs of deploy() on one stack
MaxDeploys == 3     \* deploy() runs of the stack

\* the manifests of the stack that declare a Price
PriceManifests ==
  {m \in Manifests : \E i \in DOMAIN m.resources : m.resources[i].type = TPrice}

\* deploy() by a deployer of the stack; lost: its state manager found no state
\* file and started from createEmpty(). `input` keeps the remote as the run
\* found it.
DeployAgain(m, lost) ==
  /\ pc \in {"idle", "done"} /\ runs < MaxDeploys
  /\ state' = IF lost THEN EmptyMap ELSE state
  /\ input' = remote
  /\ op' = "deploy" /\ manifest' = m /\ runs' = runs + 1
  /\ deployed' = << >> /\ errors' = << >> /\ destroyed' = << >>
  /\ logicalToPhysicalId' = EmptyMap
  /\ calls' = << >> /\ fails' = 0 /\ resp' = NoResp
  /\ idx' = 1 /\ pc' = "next"
  /\ UNCHANGED <<hasState, unsetAs, disk, spc, procs, lastRename, last, output, nodes,
                 remote, nextPhys, inflight>>

DeploysNext ==
  \/ \E m \in PriceManifests, lost \in BOOLEAN : DeployAgain(m, lost)
  \/ Entry_
  \/ Return
  \/ AfterRetrieve
  \/ AfterSearch
  \/ AfterDeactivate
  \/ AfterUpdate
  \/ AfterCreate
  \/ RespondOk
  \/ RespondMissing
  \/ RespondError

DeploysSpec == Init /\ [][DeploysNext]_vars

\* the remote Prices that were active under the logical id when the run began
ActiveBefore(lid) ==
  { p \in DOMAIN input :
      /\ input[p].type = TPrice
      /\ ~input[p].deleted
      /\ input[p].bag.active = "true"
      /\ input[p].bag.metadata["pricectl_id"] = lid }

\* C34: when a Price entry of a deploy() ends in errors, the remote Price that
\* was active for its logical id before the run is still active after the run.
C34_FailedReplacementKeepsPrice ==
  (pc = "done" /\ op = "deploy") =>
    \A e \in DOMAIN errors :
      errors[e].type = TPrice =>
        \A p \in ActiveBefore(errors[e].id) : remote[p].bag.active = "true"

\* ------------------------------------------------ diff after deploy (cli)
\* Diff.normalizeResource on the object the provider returned: the fields it
\* copies when they are not undefined, the four identity tags taken out of the
\* metadata of a Product or a Price, a Coupon's metadata as it is
DiffView(type, bag) ==
  IF type = TProduct
  THEN [bag EXCEPT !.name = Rd(@), !.description = Rd(@), !.active = Rd(@),
                   !.metadata = stripInternalMetadata(@)]
  ELSE IF type = TPrice
  THEN [PriceView(bag) EXCEPT
          !.tax_behavior = Undef,
          !.billing_scheme = Undef,
          !.recurring = IF bag.recurring.is = "obj" THEN @ ELSE NoRecurring,
          !.tiers = IF bag.tiers.is = "obj"
                    THEN [is |-> "obj",
                          items |-> [i \in DOMAIN bag.tiers.items |->
                                       [f \in {"up_to", "unit_amount", "flat_amount"} |->
                                          Rd(TierField(bag.tiers.items[i], f))]]]
                    ELSE NoTiers,
          !.transform_quantity = IF bag.transform_quantity.is = "obj" THEN @ ELSE NoTransform,
          !.metadata = stripInternalMetadata(@)]
  ELSE [bag EXCEPT !.id = Undef, !.duration = Rd(@), !.percent_off = Rd(@), !.name = Rd(@)]

\* Diff.fetchCurrentResource: what the lookup can return for an entry (a tag
\* search with limit 1 for a Product or a Price, retrieve by id for a Coupon,
\* null for every other type)
DiffFetch(r) ==
  IF r.type \in {TProduct, TPrice}
  THEN (IF Matches(r) = {} THEN {Undef} ELSE Matches(r))
  ELSE IF r.type = TCoupon
  THEN (IF r.id \in DOMAIN remote /\ remote[r.id].type = TCoupon /\ ~remote[r.id].deleted
        THEN {r.id} ELSE {Undef})
  ELSE {Undef}

\* what diff prints for an entry
DiffSays(r, current) ==
  IF current = Undef THEN "Will be created"
  ELSE IF DiffView(r.type, remote[current].bag) # r.properties THEN "changed"
  ELSE "no change"

\* Diff.run of the manifest that was just deployed without errors
DiffCommand ==
  /\ pc = "done" /\ op = "deploy" /\ errors = << >>
  /\ op' = "diff" /\ pc' = "diff" /\ idx' = 1
  /\ output' = << >>
  /\ UNCHANGED <<hasState, unsetAs, disk, spc, procs, lastRename, last, input, nodes,
                 remote, nextPhys, fails, state, logicalToPhysicalId, runs, manifest,
                 inflight, resp, calls, deployed, destroyed, errors>>

\* one turn of the loop of Diff.run
DiffResource ==
  /\ pc = "diff" /\ idx <= Len(manifest.resources)
  /\ \E current \in DiffFetch(manifest.resources[idx]) :
       output' = Append(output, [id |-> manifest.resources[idx].id,
                                 type |-> manifest.resources[idx].type,
                                 says |-> DiffSays(manifest.resources[idx], current)])
  /\ idx' = idx + 1
  /\ UNCHANGED <<hasState, unsetAs, disk, spc, procs, lastRename, last, input, nodes,
                 remote, nextPhys, fails, state, logicalToPhysicalId, runs, op, manifest,
                 pc, inflight, resp, calls, deployed, destroyed, errors>>

DeployDiffNext ==
  \/ \E m \in Manifests : FirstDeploy(m)
  \/ DiffCommand
  \/ DiffResource
  \/ Entry_
  \/ Return
  \/ AfterRetrieve
  \/ AfterSearch
  \/ AfterCouponRetrieve
  \/ AfterList
  \/ AfterUpdate
  \/ AfterCreate
  \/ RespondOk
  \/ RespondMissing
  \/ RespondError

DeployDiffSpec == Init /\ [][DeployDiffNext]_vars

\* C35: right after a deploy() of a manifest that returned no errors, diff of
\* the same manifest reports no entry as 'will be created' or as changed.
C35_DiffCleanAfterDeploy ==
  (op = "diff") => \A k \in DOMAIN output : output[k].says = "no change"

\* ------------------------------------------------ entries under different scopes
\* the manifest entry of a resource declared under a construct `group` of the
\* stack: synth takes id from node.id and path from node.path
Nested(group, e) == [e EXCEPT !.path = StackId \o "/" \o group \o "/" \o e.id]

\* stacks with two groups, each declaring one resource
GroupedManifests ==
  {[stackId |-> StackId, resources |-> r] :
     r \in { <<Nested("A", Widget), Nested("B", Gadget)>>,
             <<Nested("A", Widget), Nested("B", OneTime)>>,
             <<Nested("A", OneTime), Nested("B", Monthly999)>>,
             <<Nested("A", Summer20), Nested("B", ApiAccess)>> }}

GroupedNext ==
  \/ \E m \in GroupedManifests : FirstDeploy(m)
  \/ Entry_
  \/ Return
  \/ AfterRetrieve
  \/ AfterSearch
  \/ AfterCouponRetrieve
  \/ AfterList
  \/ AfterDeactivate
  \/ AfterUpdate
  \/ AfterCreate
  \/ RespondOk
  \/ RespondMissing
  \/ RespondError

GroupedSpec == Init /\ [][GroupedNext]_vars

\* C36: two manifest entries of one stack with different paths are different
\* resources: after a deploy() in which every entry succeeds, the state store
\* holds an entry for each manifest entry and no two manifest entries report
\* the same physical id.
C36_PathsAreResources ==
  (/\ pc = "done" /\ op = "deploy"
   /\ errors = << >> /\ Len(deployed) = Len(manifest.resources)) =>
    /\ \A i, j \in DOMAIN manifest.resources :
         manifest.resources[i].path # manifest.resources[j].path =>
           deployed[i].physicalId # deployed[j].physicalId
    /\ hasState =>
         \A i \in DOMAIN manifest.resources :
           /\ manifest.stackId \in DOMAIN state
           /\ \E l \in DOMAIN state[manifest.stackId] :
                state[manifest.stackId][l].path = manifest.resources[i].path

\* ------------------------------------------------ two stacks, one account
\* the manifest entry of the same declaration made in stack s
InStack(s, e) == [e EXCEPT !.path = s \o "/" \o e.id]

OtherStackId == "OtherStack"

\* two stacks that declare resources with the same logical ids
TwoStacks ==
  { [stackId |-> StackId, resources |-> <<Widget, OneTime>>],
    [stackId |-> StackId, resources |-> <<Summer20>>],
    [stackId |-> OtherStackId,
     resources |-> <<InStack(OtherStackId, Gadget), InStack(OtherStackId, Monthly999)>>],
    [stackId |-> OtherStackId, resources |-> <<InStack(OtherStackId, Summer25)>>] }

\* the paths of the entries stack s declares
StackPaths(s) ==
  UNION {{m.resources[i].path : i \in DOMAIN m.resources} : m \in {t \in TwoStacks : t.stackId = s}}

StacksNext ==
  \/ \E m \in TwoStacks : StartDeploy(m)
  \/ \E m \in TwoStacks : StartDestroy(m)
  \/ Entry_
  \/ Return
  \/ AfterRetrieve
  \/ AfterSearch
  \/ AfterCouponRetrieve
  \/ AfterDeactivate
  \/ AfterUpdate
  \/ AfterCreate
  \/ AfterDelete
  \/ AfterDestroyDeactivate
  \/ RespondOk
  \/ RespondMissing
  \/ RespondError

StacksSpec == Init /\ [][StacksNext]_vars

\* C37: deploy() or destroy() of one stack never updates, deactivates or
\* deletes a remote object that the deploy of another stack created (here: an
\* object whose pricectl_path tag is a path of the other stack).
C37_StacksAreIsolated ==
  \A k \in DOMAIN inflight :
    LET c == inflight[k] IN
      (/\ c.api \in {"update", "deactivate", "del"}
       /\ c.type \in {TProduct, TPrice, TCoupon}
       /\ c.id \in DOMAIN remote) =>
        remote[c.id].bag.metadata["pricectl_path"] \in {Undef} \cup StackPaths(manifest.stackId)

\* C38: a constructor call that throws leaves the tree as it was: the children
\* of its scope are the same after the call as before it.
C38_ThrowLeavesTree ==
  [][(/\ last'.call \in {"Construct", "Stack", "TestResource", "Coupon"}
      /\ last'.threw # NoError
      /\ last'.scope # 0) =>
       nodes'[last'.scope].children = nodes[last'.scope].children]_vars

\* ------------------------------------------------ lookup by list (features, meters)
MaxListed == 102    \* objects of one type the provider holds

\* features.list({ limit: 100 }) and meters.list({ limit: 100 })
LIST_LIMIT == 100

\* what the provider holds, in the order it lists them: n objects, the one with
\* the wanted business key at position `at` (0: none has it)
Listing(n, at) == [i \in 1..n |-> IF i = at THEN "wanted" ELSE "other"]

\* the first page of a list call
FirstPage(listing, limit) ==
  SubSeq(listing, 1, IF Len(listing) < limit THEN Len(listing) ELSE limit)

\* findExistingEntitlementFeature(lookupKey) / findExistingBillingMeter(eventName):
\* result.data.find(..) ?? null on the first page; 0 stands for null
findExistingByList(listing) ==
  LET data == FirstPage(listing, LIST_LIMIT) IN
    IF \E i \in DOMAIN data : data[i] = "wanted"
      THEN CHOOSE i \in DOMAIN data : data[i] = "wanted" ELSE 0

ListInit ==
  /\ input \in {[type |-> t, n |-> n, at |-> at] :
                  t \in {TFeature, TMeter}, n \in 0..MaxListed, at \in 0..MaxListed}
  /\ input.at <= input.n
  /\ output = NoValue
  /\ nodes = << >>
  /\ disk = NoFiles
  /\ spc = "none"
  /\ procs = [p \in Procs |-> NotStarted]
  /\ lastRename = "none"
  /\ last = NoCall
  /\ hasState = TRUE /\ unsetAs = Undef
  /\ remote = EmptyMap /\ nextPhys = 0 /\ state = EmptyMap
  /\ fails = 0
  /\ logicalToPhysicalId = EmptyMap
  /\ runs = 0
  /\ op = "none"
  /\ manifest = NoManifest
  /\ pc = "idle"
  /\ idx = 1
  /\ inflight = << >>
  /\ resp = NoResp
  /\ calls = << >>
  /\ deployed = << >>
  /\ destroyed = << >>
  /\ errors = << >>

\* deployEntitlementFeature / deployBillingMeter up to the answer of the lookup
LookupByList ==
  /\ output = NoValue
  /\ output' = [step |-> "found", existing |-> findExistingByList(Listing(input.n, input.at)),
                call |-> "none"]
  /\ UNCHANGED <<pureOthers, input>>

\* ... and the call it issues then: update when the lookup returned an object,
\* create when it returned null
DeployByList ==
  /\ output # NoValue /\ output.step = "found"
  /\ output' = [output EXCEPT !.step = "issued",
                              !.call = IF output.existing # 0 THEN "update" ELSE "create"]
  /\ UNCHANGED <<pureOthers, input>>

ListNext == LookupByList \/ DeployByList

ListSpec == ListInit /\ [][ListNext]_vars

\* C39: when a remote EntitlementFeature with the desired lookup_key (or a
\* remote BillingMeter with the desired event_name) exists, deploy issues no
\* create call for the entry, however many other features or meters exist.
C39_NoCreateWhenKeyExists ==
  (output # NoValue /\ output.step = "issued" /\ input.at # 0) => output.call # "create"

\* ------------------------------------------------ deploy, destroy, deploy
\* the first statements of deploy() and of destroy(), whatever the number of
\* runs before
StartDeploy_Run(m) ==
  /\ op' = "deploy" /\ manifest' = m /\ runs' = runs + 1
  /\ deployed' = << >> /\ errors' = << >> /\ destroyed' = << >>
  /\ logicalToPhysicalId' = EmptyMap
  /\ calls' = << >> /\ fails' = 0 /\ resp' = NoResp
  /\ idx' = 1 /\ pc' = "next"
  /\ UNCHANGED <<env, remote, nextPhys, state, inflight>>

StartDestroy_Run(m) ==
  /\ op' = "destroy" /\ manifest' = m /\ runs' = runs + 1
  /\ deployed' = << >> /\ errors' = << >> /\ destroyed' = << >>
  /\ calls' = << >> /\ fails' = 0 /\ resp' = NoResp
  /\ idx' = 1 /\ pc' = "next"
  /\ UNCHANGED <<env, remote, nextPhys, state, inflight, logicalToPhysicalId>>

\* destroy() of the manifest the run before deployed without errors
DestroySame ==
  /\ pc = "done" /\ op = "deploy" /\ errors = << >> /\ runs < MaxDeploys
  /\ StartDestroy_Run(manifest)

\* deploy() of the manifest the run before destroyed without errors
DeploySame ==
  /\ pc = "done" /\ op = "destroy" /\ errors = << >> /\ runs < MaxDeploys
  /\ StartDeploy_Run(manifest)

CycleNext ==
  \/ \E m \in Manifests : FirstDeploy(m)
  \/ DestroySame
  \/ DeploySame
  \/ Entry_
  \/ Return
  \/ AfterRetrieve
  \/ AfterSearch
  \/ AfterCouponRetrieve
  \/ AfterList
  \/ AfterDeactivate
  \/ AfterUpdate
  \/ AfterCreate
  \/ AfterDelete
  \/ AfterDestroyDeactivate
  \/ RespondOk
  \/ RespondMissing
  \/ RespondError

CycleSpec == Init /\ [][CycleNext]_vars

\* a remote object that is there and active
IsActive(p) ==
  /\ p \in DOMAIN remote
  /\ ~remote[p].deleted
  /\ remote[p].type \in {TProduct, TPrice, TFeature} => remote[p].bag.active = "true"
  /\ remote[p].type = TMeter => remote[p].bag.status = "active"

\* C40: after destroy() of a manifest followed by deploy() of the same
\* manifest, both without errors, every entry of the manifest has an active
\* remote object reported as its physical id, whatever its kind.
C40_RedeployAfterDestroy ==
  (pc = "done" /\ op = "deploy" /\ runs >= 2 /\ errors = << >>) =>
    \A i \in DOMAIN manifest.resources :
      \E j \in DOMAIN deployed :
        /\ deployed[j].id = manifest.resources[i].id
        /\ IsActive(deployed[j].physicalId)
====
